---- MODULE Spec2Model ----
(***************************************************************************)
(* Alert engine of the market bot: the JSON store (portfolio.json), the    *)
(* operations of notification_service.py that read and rewrite it, and the *)
(* periodic evaluation pass check_alerts.                                  *)
(*                                                                         *)
(* Numbers are integers: a price is in the oracle's unit, the clock counts *)
(* ticks.  A quotient the code computes in floating point is kept as the   *)
(* exact fraction <<numerator, denominator>>.                              *)
(***************************************************************************)
EXTENDS Integers, Sequences, FiniteSets, TLC

\* ---------------------------------------------------------------- bounds
\* The clock stops at MaxTime; an alert is stamped with the clock, which
\* then moves on, so at most MaxTime alerts are ever created.
MaxTime == 2

\* ---------------------------------------------------------------- inputs
Users == {1, 2}
Symbols == {"THYAO", "AAPL"}
Targets == {0, 100}
Conditions == {"above", "below"}
\* The prices the oracle may report for a symbol.
PricesOf(symbol) ==
    IF symbol = "THYAO" THEN {90, 95, 100, 101, 108, 115} ELSE {90, 115}
Durations == {1, 2}
TimerUsers == {1}

\* The price alerts users ask for.
PriceRequests ==
    [symbol : {"THYAO"}, target_price : {100}, condition : Conditions, user_id : {1}]
    \cup [symbol : {"AAPL"}, target_price : Targets, condition : {"above"}, user_id : {2}]

\* Python's None.
None == [none |-> TRUE]

\* What get_market_data returns for a symbol: None, or the price and the
\* currency of the quote (the fields notification_service.py reads).
CurrencyOf(symbol) == IF symbol = "THYAO" THEN "TRY" ELSE "USD"

MarketData(symbol) ==
    {None} \cup {[price |-> p, currency |-> CurrencyOf(symbol)] : p \in PricesOf(symbol)}

\* The oracle's answers to one pass: one per symbol the pass asks for (a
\* symbol it does not ask for has no answer to give).
Oracles(asked) ==
    {f \in [Symbols -> UNION {MarketData(s) : s \in Symbols}] :
        \A s \in Symbols : IF s \in asked THEN f[s] \in MarketData(s) ELSE f[s] = None}

\* The oracle's answer to add_alert's get_price_now.
StartData(symbol) ==
    IF symbol = "THYAO" THEN {[price |-> 100, currency |-> "TRY"]} ELSE {None}

\* The oracle's answer to check_alerts' lookup of TRY=X.
RateData == {[price |-> 30, currency |-> "TRY"]}

VARIABLES
    file,   \* portfolio.json: NoFile, or the document last saved
    now,    \* time.time()
    last,   \* the last operation: what it read and what it returned
    log,    \* per alert (by created_at), the repeat counts of its jobs so far
    seen,   \* the oracle's answers to the successive passes of a scenario,
            \* or to the successive lookups of a pass, or the number of
            \* the answered passes so far (modulo 2), or the listing of
            \* their alerts a user was last shown, or the jobs a send has
            \* failed for so far
    held,   \* per thread, the operation it has loaded the file for, if any
    disp,   \* the run of check_alerts_job in progress: its jobs and its sends
    calls,  \* per user, the last newsletter call made for them, if any
    lost,   \* the save of an interleaved operation, if one has saved since
            \* the last load: what it had loaded, what the file held then
    deleted \* the alerts (by created_at) that interleaved cancels have
            \* saved since the last load

vars == <<file, now, last, log, seen, held, disp, calls, lost, deleted>>

\* The variables of the dispatcher and of the newsletter calls, and the
\* records kept of the interleaved saves.
front == <<disp, calls>>
races == <<lost, deleted>>

\* ----------------------------------------------------------------- store
NoFile == [nofile |-> TRUE]

EmptyDoc ==
    [alerts |-> <<>>, balances |-> <<>>, history |-> <<>>,
     snapshots |-> <<>>, newsletter_subs |-> <<>>]

\* load_portfolio: the document of the file, with the keys balances,
\* history, snapshots and newsletter_subs set to empty where the document
\* lacks them (lines 15-24; the key alerts is not among them).
load_portfolio(f) ==
    IF f = NoFile THEN EmptyDoc
    ELSE f @@ [balances |-> <<>>, history |-> <<>>,
               snapshots |-> <<>>, newsletter_subs |-> <<>>]

\* data.get("alerts", []).
alerts_of(data) == IF "alerts" \in DOMAIN data THEN data.alerts ELSE <<>>

save_portfolio(data) == data

Abs(x) == IF x < 0 THEN -x ELSE x

\* datetime.fromtimestamp(t).strftime(fmt): the text of t in format fmt.
strftime(t, fmt) == <<fmt, t>>

\* get_price_now: the oracle's price, 0.0 when it has no data.
get_price_now(market_data) ==
    IF market_data # None THEN market_data.price ELSE 0

\* ----------------------------------------------------------- add_alert
add_alert(data, symbol, target_price, condition, user_id, t, market_data) ==
    LET alert == [type |-> "price",
                  symbol |-> symbol,
                  target_price |-> target_price,
                  condition |-> condition,
                  user_id |-> user_id,
                  created_at |-> t,
                  start_price |-> get_price_now(market_data),
                  current_level |-> -1]
    IN  [data EXCEPT !.alerts = Append(@, alert)]

add_time_alert(data, seconds, user_id, note, t) ==
    LET alert == [type |-> "time",
                  trigger_timestamp |-> t + seconds,
                  note |-> note,
                  user_id |-> user_id,
                  created_at |-> t,
                  duration_seconds |-> seconds]
    IN  [data EXCEPT !.alerts = Append(@, alert)]

\* ---------------------------------------------------------- check_alerts
\* The text of the duration of a time alert.
duration_str(duration) ==
    IF duration >= 60
    THEN LET mins == duration \div 60
         IN  IF mins >= 60 THEN <<mins \div 60, "saat">> ELSE <<mins, "dakika">>
    ELSE <<duration, "saniye">>

time_message(alert) ==
    [title |-> "ZAMANLAYICI",
     duration_str |-> duration_str(alert.duration_seconds),
     created_at_fmt |-> strftime(alert.created_at, "%d/%m/%Y %H:%M"),
     note |-> alert.note]

build_message(alert, title_suffix, market_data, usd_try_rate) ==
    LET current_price == market_data.price
        currency == market_data.currency
        current_usd == IF currency = "TRY"
                       THEN (IF usd_try_rate > 0
                             THEN <<current_price, usd_try_rate>> ELSE <<0, 1>>)
                       ELSE <<current_price, 1>>
        current_try == IF currency = "USD"
                       THEN <<current_price * usd_try_rate, 1>>
                       ELSE <<current_price, 1>>
        start_price == alert.start_price
        total_change_pct == IF start_price > 0
                            THEN <<(current_price - start_price) * 100, start_price>>
                            ELSE <<0, 1>>
    IN  [title |-> <<alert.symbol, title_suffix>>,
         created_at_fmt |-> strftime(alert.created_at, "%d/%m/%Y %H:%M"),
         target |-> alert.target_price,
         currency |-> currency,
         current_usd |-> current_usd,
         current_try |-> current_try,
         total_change_pct |-> total_change_pct]

\* abs((current_price - target) / target) * 100, for target # 0.
percent_diff(current_price, target) ==
    <<Abs(current_price - target) * 100, Abs(target)>>

\* q >= k for the fraction q.
FracGe(q, k) == q[1] >= k * q[2]

base_met(condition, current_price, target) ==
    \/ condition = "above" /\ current_price >= target
    \/ condition = "below" /\ current_price <= target

\* The outcome of the loop body for one alert: whether it raised, whether
\* the alert moves to history, its notification (None when it yields none)
\* and the alert as the body leaves it.
Outcome(raised, should_remove, trigger_info, alert) ==
    [raised |-> raised, should_remove |-> should_remove,
     trigger_info |-> trigger_info, alert |-> alert]

eval_time(alert, t) ==
    IF t >= alert.trigger_timestamp
    THEN Outcome(FALSE, TRUE,
                 [message |-> time_message(alert), repeat_count |-> 1], alert)
    ELSE Outcome(FALSE, FALSE, None, alert)

\* The level a percent difference qualifies for: the if-chain on
\* percent_diff >= 10, percent_diff >= 5, else.
select_level(pd) ==
    IF FracGe(pd, 10) THEN 2 ELSE IF FracGe(pd, 5) THEN 1 ELSE 0

\* The guard of each branch: the level fires only above the stored one.
\* A level logic that notifies whenever the base condition is met.
fires_always(current_level, level) == TRUE

\* A test that lets the level an alert is at fire again.
fires_again(current_level, level) == level >= current_level

fires(current_level, level) == current_level < level

\* The repeat_count and the title of each level's notification.
\* A level logic whose 5% notification is sent once.
repeat_count_once_below_10(level) == IF level = 2 THEN 5 ELSE 1

repeat_count_of(level) ==
    CASE level = 2 -> 5 [] level = 1 -> 3 [] OTHER -> 1

title_of(level) ==
    CASE level = 2 -> "Hedefi %10 Asti! (KRITIK ARTIS)"
      [] level = 1 -> "Hedefi %5 Asti!"
      [] OTHER -> "Hedefi Gecti!"

\* Whether a level ends the alert (should_remove).
\* A level logic that never ends an alert.
terminal_never(level) == FALSE

terminal(level) == level = 2

\* The level logic, once the price is known.  A target of 0 with the base
\* condition met divides by zero: the call raises ZeroDivisionError.
level_logic(alert, market_data, usd_try_rate) ==
    LET current_price == market_data.price
        target == alert.target_price
        level == select_level(percent_diff(current_price, target))
    IN  IF ~base_met(alert.condition, current_price, target)
        THEN Outcome(FALSE, FALSE, None, alert)
        ELSE IF target = 0
        THEN Outcome(TRUE, FALSE, None, alert)
        ELSE IF fires(alert.current_level, level)
        THEN Outcome(FALSE, terminal(level),
                     [message |-> build_message(alert, title_of(level),
                                                market_data, usd_try_rate),
                      repeat_count |-> repeat_count_of(level)],
                     [alert EXCEPT !.current_level = level])
        ELSE Outcome(FALSE, FALSE, None, alert)

eval_price(alert, market_data, usd_try_rate) ==
    IF market_data = None
    THEN Outcome(FALSE, FALSE, None, alert)
    ELSE level_logic(alert, market_data, usd_try_rate)

\* The final message of an alert archived without a notification.
Completed == [text |-> "Completed"]

\* A history entry that does not keep the text of the notification.
archive_without_message(alert, trigger_info, t) ==
    alert @@ [completed_at |-> t, final_message |-> Completed]

\* The history entry of an alert that is done: the alert with its
\* completion time and the text of its notification.
archive(alert, trigger_info, t) ==
    alert @@ [completed_at |-> t,
              final_message |-> IF trigger_info # None THEN trigger_info.message
                                ELSE Completed]

\* A persistence step that puts the newest history entry first.
persist_history_newest_first(history, o, t) ==
    IF o.should_remove THEN <<archive(o.alert, o.trigger_info, t)>> \o history
    ELSE history

\* "Handling Persistence": the alert moves to history or stays pending.
persist_history(history, o, t) ==
    IF o.should_remove THEN Append(history, archive(o.alert, o.trigger_info, t))
    ELSE history

\* A persistence step that copies a finished alert instead of moving it.
persist_remaining_copy(remaining_alerts, o) == Append(remaining_alerts, o.alert)

\* A persistence step that puts a pending alert in front of those kept
\* before it.
persist_remaining_in_front(remaining_alerts, o) ==
    IF o.should_remove THEN remaining_alerts ELSE <<o.alert>> \o remaining_alerts

persist_remaining(remaining_alerts, o) ==
    IF o.should_remove THEN remaining_alerts ELSE Append(remaining_alerts, o.alert)

\* The loop of check_alerts from alert i on.  acc holds the locals of the
\* call: remaining_alerts, history, triggered_alerts, price_cache, and
\* whether the call raised; srcs names, for each job, the created_at of the
\* alert it is for, and visited the created_at of the alerts the loop has
\* come to.
RECURSIVE check_loop(_, _, _, _, _, _)
check_loop(alerts, i, acc, oracle, usd_try_rate, t) ==
    IF i > Len(alerts) THEN acc
    ELSE
      LET alert == alerts[i]
          price_cache ==
              IF alert.type = "price" /\ alert.symbol \notin DOMAIN acc.price_cache
              THEN acc.price_cache @@ (alert.symbol :> oracle[alert.symbol])
              ELSE acc.price_cache
          o == IF alert.type = "time" THEN eval_time(alert, t)
               ELSE eval_price(alert, price_cache[alert.symbol], usd_try_rate)
      IN  IF o.raised
          THEN [acc EXCEPT !.raised = TRUE, !.price_cache = price_cache,
                           !.visited = Append(acc.visited, alert.created_at)]
          ELSE \* the locals after this alert, then the rest of the loop
               CHOOSE r \in
                 {check_loop(alerts, i + 1, after, oracle, usd_try_rate, t) :
                    after \in
                      {[raised |-> FALSE,
                        price_cache |-> price_cache,
                        visited |-> Append(acc.visited, alert.created_at),
                        triggered_alerts |->
                            IF o.trigger_info # None
                            THEN Append(acc.triggered_alerts,
                                        [user_id |-> alert.user_id,
                                         message |-> o.trigger_info.message,
                                         repeat_count |-> o.trigger_info.repeat_count])
                            ELSE acc.triggered_alerts,
                        srcs |-> IF o.trigger_info # None
                                 THEN Append(acc.srcs, alert.created_at) ELSE acc.srcs,
                        history |-> persist_history(acc.history, o, t),
                        remaining_alerts |-> persist_remaining(acc.remaining_alerts, o)]}} :
                 TRUE

\* check_alerts on the loaded document: the locals at the end of the loop.
check_alerts(data, oracle, usd_try_rate, t) ==
    check_loop(data.alerts, 1,
               [raised |-> FALSE, price_cache |-> <<>>, visited |-> <<>>,
                triggered_alerts |-> <<>>, srcs |-> <<>>,
                history |-> data.history, remaining_alerts |-> <<>>],
               oracle, usd_try_rate, t)

\* ------------------------------------------------------------ operations
\* An update_balance that starts the user's rows afresh with the new row.
update_balance_afresh(data, user_id, symbol, amount, unit) ==
    [data EXCEPT !.balances =
        (ToString(user_id) :> (symbol :> [amount |-> amount, unit |-> unit]))
        @@ data.balances]

\* update_balance on the loaded document.
update_balance(data, user_id, symbol, amount, unit) ==
    LET user_str == ToString(user_id)
        balances == IF user_str \notin DOMAIN data.balances
                    THEN (user_str :> <<>>) @@ data.balances
                    ELSE data.balances
    IN  [data EXCEPT !.balances =
            (user_str :> ((symbol :> [amount |-> amount, unit |-> unit])
                          @@ balances[user_str])) @@ balances]

\* A list without its element at position i.
Without(list, i) == SubSeq(list, 1, i - 1) \o SubSeq(list, i + 1, Len(list))

\* A delete_alert that takes the index as a position in the list of all
\* users' alerts.
delete_alert_by_position(data, user_id, alert_index) ==
    LET alerts == alerts_of(data)
        user_str == ToString(user_id)
        user_indices == SelectSeq([i \in 1..Len(alerts) |-> i],
                                  LAMBDA i : ToString(alerts[i].user_id) = user_str)
    IN  IF user_indices = <<>>
        THEN [saved |-> FALSE, data |-> data, result |-> "Silinecek aktif alarminiz yok."]
        ELSE IF alert_index < 1 \/ alert_index > Len(user_indices)
        THEN [saved |-> FALSE, data |-> data, result |-> "Gecersiz numara."]
        ELSE [saved |-> TRUE,
              data |-> [data EXCEPT !.alerts = Without(alerts, alert_index)],
              result |-> "Iptal edildi"]

\* A delete_alert that confirms and saves without the del of line 480.
delete_alert_keeping(data, user_id, alert_index) ==
    LET alerts == alerts_of(data)
        user_str == ToString(user_id)
        user_indices == SelectSeq([i \in 1..Len(alerts) |-> i],
                                  LAMBDA i : ToString(alerts[i].user_id) = user_str)
    IN  IF user_indices = <<>>
        THEN [saved |-> FALSE, data |-> data, result |-> "Silinecek aktif alarminiz yok."]
        ELSE IF alert_index < 1 \/ alert_index > Len(user_indices)
        THEN [saved |-> FALSE, data |-> data, result |-> "Gecersiz numara."]
        ELSE [saved |-> TRUE, data |-> data, result |-> "Iptal edildi"]

\* A delete_alert that counts the user's alerts from the end of the list.
delete_alert_from_end(data, user_id, alert_index) ==
    LET alerts == alerts_of(data)
        user_str == ToString(user_id)
        user_indices == SelectSeq([i \in 1..Len(alerts) |-> i],
                                  LAMBDA i : ToString(alerts[i].user_id) = user_str)
    IN  IF user_indices = <<>>
        THEN [saved |-> FALSE, data |-> data, result |-> "Silinecek aktif alarminiz yok."]
        ELSE IF alert_index < 1 \/ alert_index > Len(user_indices)
        THEN [saved |-> FALSE, data |-> data, result |-> "Gecersiz numara."]
        ELSE [saved |-> TRUE,
              data |-> [data EXCEPT !.alerts =
                           Without(alerts, user_indices[Len(user_indices) + 1 - alert_index])],
              result |-> "Iptal edildi"]

\* delete_alert: the document it leaves and the text it returns; saved
\* tells whether it reached save_portfolio.
delete_alert(data, user_id, alert_index) ==
    LET alerts == alerts_of(data)
        user_str == ToString(user_id)
        user_indices == SelectSeq([i \in 1..Len(alerts) |-> i],
                                  LAMBDA i : ToString(alerts[i].user_id) = user_str)
    IN  IF user_indices = <<>>
        THEN [saved |-> FALSE, data |-> data, result |-> "Silinecek aktif alarminiz yok."]
        ELSE IF alert_index < 1 \/ alert_index > Len(user_indices)
        THEN [saved |-> FALSE, data |-> data, result |-> "Gecersiz numara."]
        ELSE LET target_main_index == user_indices[alert_index]
             IN  [saved |-> TRUE,
                  data |-> [data EXCEPT !.alerts =
                               SubSeq(alerts, 1, target_main_index - 1)
                               \o SubSeq(alerts, target_main_index + 1, Len(alerts))],
                  result |-> "Iptal edildi"]

\* The alert delete_alert removes, for an index in range.
removed_alert(data, user_id, alert_index) ==
    LET alerts == alerts_of(data)
        user_indices == SelectSeq([i \in 1..Len(alerts) |-> i],
                                  LAMBDA i : ToString(alerts[i].user_id) = ToString(user_id))
    IN  alerts[user_indices[alert_index]]

\* The symbols of the price alerts of a list.
AlertSymbols(alerts) ==
    {alerts[i].symbol : i \in {j \in 1..Len(alerts) : alerts[j].type = "price"}}

\* The jobs of a pass, added to the record of each alert's jobs.
RECURSIVE Logged(_, _, _)
Logged(l, srcs, jobs) ==
    IF srcs = <<>> THEN l
    ELSE Logged([l EXCEPT ![Head(srcs)] = Append(@, Head(jobs).repeat_count)],
                Tail(srcs), Tail(jobs))

NoOp == [op |-> "none"]

\* The threads that call the store: the event loop, which runs
\* check_alerts_job and the /alert command, and the executor's workers,
\* which run the agent's tools.
Workers == {"worker"}
Threads == {"loop"} \cup Workers
Idle == [op |-> "idle"]

\* No run of check_alerts_job is in progress.
NoRun == [pc |-> "idle"]

\* No interleaved operation has saved yet.
NoSave == [saved |-> FALSE]

Init ==
    /\ file = NoFile
    /\ now = 0
    /\ last = NoOp
    /\ log = [c \in 0..MaxTime |-> <<>>]
    /\ seen = <<>>
    /\ held = [th \in Threads |-> Idle]
    /\ disp = NoRun
    /\ calls = [u \in Users |-> "none"]
    /\ lost = NoSave
    /\ deleted = {}

\* A user asks for a price alert (the /alert command, the create_alert tool).
AddAlert ==
    \E r \in PriceRequests : \E md \in StartData(r.symbol) :
        /\ now < MaxTime
        /\ IF "alerts" \in DOMAIN load_portfolio(file)
           THEN /\ file' = save_portfolio(add_alert(load_portfolio(file), r.symbol,
                                                    r.target_price, r.condition,
                                                    r.user_id, now, md))
                /\ last' = [op |-> "add_alert"]
           ELSE \* data["alerts"] of line 54 raises
                /\ file' = file
                /\ last' = [op |-> "add_alert", raised |-> "KeyError"]
        /\ now' = now + 1
        /\ UNCHANGED <<log, seen, held, front, races>>

\* A user asks for a timer (the create_timer tool).
AddTimeAlert ==
    \E seconds \in Durations, user_id \in TimerUsers :
        /\ now < MaxTime
        /\ IF "alerts" \in DOMAIN load_portfolio(file)
           THEN /\ file' = save_portfolio(add_time_alert(load_portfolio(file), seconds,
                                                         user_id, "note", now))
                /\ last' = [op |-> "add_time_alert"]
           ELSE \* data["alerts"] of line 80 raises
                /\ file' = file
                /\ last' = [op |-> "add_time_alert", raised |-> "KeyError"]
        /\ now' = now + 1
        /\ UNCHANGED <<log, seen, held, front, races>>

\* A user cancels the alert shown at a number (the cancel_alert_tool).
DeleteAlert ==
    \E user_id \in Users, alert_index \in 0..2 :
        LET r == delete_alert(load_portfolio(file), user_id, alert_index)
        IN  /\ file' = IF r.saved THEN save_portfolio(r.data) ELSE file
            /\ last' = [op |-> "delete_alert", result |-> r.result]
            /\ UNCHANGED <<now, log, seen, held, front, races>>

\* One run of check_alerts_job's call of check_alerts: the pass either
\* raises (nothing is saved, nothing is returned) or saves and returns its
\* jobs.
Pass(data, oracle, usd_data) ==
    \E r \in {check_alerts(data, oracle,
                           IF usd_data # None THEN usd_data.price ELSE 1, now)} :
            /\ file' = IF r.raised THEN file
                       ELSE save_portfolio([data EXCEPT !.alerts = r.remaining_alerts,
                                                        !.history = r.history])
            /\ last' = [op |-> "check_alerts",
                        pre |-> data.alerts,
                        oracle |-> oracle,
                        raised |-> r.raised,
                        visited |-> r.visited,
                        triggered_alerts |-> IF r.raised THEN <<>> ELSE r.triggered_alerts,
                        srcs |-> IF r.raised THEN <<>> ELSE r.srcs]
            /\ log' = IF r.raised THEN log ELSE Logged(log, r.srcs, r.triggered_alerts)
            /\ UNCHANGED now

CheckAlerts ==
    \E oracle \in Oracles(AlertSymbols(load_portfolio(file).alerts)),
       usd_data \in RateData :
        Pass(load_portfolio(file), oracle, usd_data)
        /\ UNCHANGED <<seen, held, front, races>>

\* Time passes.
Tick ==
    /\ now < MaxTime
    /\ now' = now + 1
    /\ last' = NoOp
    /\ UNCHANGED <<file, log, seen, held, front, races>>

Next == AddAlert \/ AddTimeAlert \/ DeleteAlert \/ CheckAlerts \/ Tick

Spec == Init /\ [][Next]_vars

\* --------------------------------------------------------- interleavings
\* Every operation loads the file, works on its copy and saves the copy;
\* an operation of a worker and an operation of the event loop overlap,
\* each of them between its load and its save.
BalanceRequests == [symbol : {"USD"}, amount : {1}, unit : {"adet"}, user_id : {1}]

RequestsOf(th) ==
    [op : {"add_alert"}, r : {r \in PriceRequests : r.symbol = "THYAO" /\ r.condition = "above"}]
    \cup (IF th = "loop" THEN {[op |-> "check_alerts"]}
         ELSE [op : {"add_time_alert"}, seconds : {1}, user_id : TimerUsers]
              \cup [op : {"update_balance"}, r : BalanceRequests]
              \cup [op : {"delete_alert"}, user_id : {1}, alert_index : {1}])

\* The jobs returned so far for the alerts created at c or later.  An alert
\* that a late save puts back is notified again, without end: the passes
\* explored are those that start with fewer than MaxJobs jobs returned.
MaxJobs == 3

RECURSIVE JobsLogged(_)
JobsLogged(c) == IF c > MaxTime THEN 0 ELSE Len(log[c]) + JobsLogged(c + 1)

\* The record of a save: the thread and the operation, the document the
\* operation had loaded (and whether it had read it from a file that was
\* being written), and the document the file held when it saved its own.
Overwrite(th) ==
    [saved |-> TRUE, by |-> th, op |-> held[th].op, torn |-> held[th].torn,
     loaded |-> held[th].data, before |-> load_portfolio(file)]

\* What a load can return: the document of the file, or, when it reads
\* the file while another thread is writing it (open(..., 'w') has emptied
\* the file and json.dump has not finished), the default document that
\* load_portfolio returns for text that does not parse.  The write the
\* load runs into is the save of another thread that no load has followed.
Reads(th) ==
    {load_portfolio(file)}
    \cup (IF lost.saved /\ lost.by # th THEN {EmptyDoc} ELSE {})

\* A thread starts an operation: load_portfolio, and for the two adds the
\* reading of the clock that follows it.
Load(th) ==
    \E request \in RequestsOf(th), data \in Reads(th) :
        /\ held[th] = Idle
        /\ request.op \in {"add_alert", "add_time_alert"} => now < MaxTime
        /\ held' = [held EXCEPT ![th] = [op |-> request.op, request |-> request,
                                         data |-> data, t |-> now,
                                         torn |-> data # load_portfolio(file)]]
        /\ now' = IF request.op \in {"add_alert", "add_time_alert"} THEN now + 1 ELSE now
        /\ lost' = NoSave
        /\ deleted' = {}
        /\ UNCHANGED <<file, last, log, seen, front>>

SaveAddAlert(th) ==
    /\ held[th].op = "add_alert"
    /\ \E md \in StartData(held[th].request.r.symbol) :
          LET r == held[th].request.r
          IN  file' = save_portfolio(add_alert(held[th].data, r.symbol, r.target_price,
                                               r.condition, r.user_id, held[th].t, md))
    /\ last' = [op |-> "add_alert"]
    /\ held' = [held EXCEPT ![th] = Idle]
    /\ lost' = Overwrite(th)
    /\ UNCHANGED <<now, log, seen, front, deleted>>

SaveAddTimeAlert(th) ==
    /\ held[th].op = "add_time_alert"
    /\ file' = save_portfolio(add_time_alert(held[th].data, held[th].request.seconds,
                                             held[th].request.user_id, "note", held[th].t))
    /\ last' = [op |-> "add_time_alert"]
    /\ held' = [held EXCEPT ![th] = Idle]
    /\ lost' = Overwrite(th)
    /\ UNCHANGED <<now, log, seen, front, deleted>>

SaveUpdateBalance(th) ==
    /\ held[th].op = "update_balance"
    /\ LET r == held[th].request.r
       IN  file' = save_portfolio(update_balance(held[th].data, r.user_id, r.symbol,
                                                 r.amount, r.unit))
    /\ last' = [op |-> "update_balance"]
    /\ held' = [held EXCEPT ![th] = Idle]
    /\ lost' = Overwrite(th)
    /\ UNCHANGED <<now, log, seen, front, deleted>>

SaveDeleteAlert(th) ==
    /\ held[th].op = "delete_alert"
    /\ LET r == delete_alert(held[th].data, held[th].request.user_id,
                              held[th].request.alert_index)
       IN  /\ file' = IF r.saved THEN save_portfolio(r.data) ELSE file
           /\ last' = [op |-> "delete_alert", result |-> r.result]
           /\ lost' = IF r.saved THEN Overwrite(th) ELSE lost
           /\ deleted' = IF r.saved
                         THEN deleted \cup {removed_alert(held[th].data,
                                                          held[th].request.user_id,
                                                          held[th].request.alert_index).created_at}
                         ELSE deleted
    /\ held' = [held EXCEPT ![th] = Idle]
    /\ UNCHANGED <<now, log, seen, front>>

\* A pass that evaluates the file as it is when the pass ends, not the
\* document it loaded.
SaveCheckAlerts_reloading(th) ==
    /\ held[th].op = "check_alerts"
    /\ JobsLogged(0) < MaxJobs
    /\ \E oracle \in Oracles(AlertSymbols(load_portfolio(file).alerts)),
          usd_data \in RateData :
          Pass(load_portfolio(file), oracle, usd_data)
    /\ held' = [held EXCEPT ![th] = Idle]
    /\ lost' = IF last'.raised THEN lost ELSE Overwrite(th)
    /\ UNCHANGED <<seen, front, deleted>>

SaveCheckAlerts(th) ==
    /\ held[th].op = "check_alerts"
    /\ JobsLogged(0) < MaxJobs
    /\ \E oracle \in Oracles(AlertSymbols(held[th].data.alerts)), usd_data \in RateData :
          Pass(held[th].data, oracle, usd_data)
    /\ held' = [held EXCEPT ![th] = Idle]
    /\ lost' = IF last'.raised THEN lost ELSE Overwrite(th)
    /\ UNCHANGED <<seen, front, deleted>>

ConcNext ==
    \/ \E th \in Threads : Load(th)
    \/ \E th \in Threads : SaveAddAlert(th)
    \/ \E th \in Workers : SaveAddTimeAlert(th)
    \/ \E th \in Workers : SaveUpdateBalance(th)
    \/ \E th \in Workers : SaveDeleteAlert(th)
    \/ SaveCheckAlerts("loop")
    \/ Tick

SpecConc == Init /\ [][ConcNext]_vars

\* ------------------------------------------------------------- scenarios
\* One price alert, created first, then evaluated in up to MaxPasses
\* successive passes whose oracle answers are recorded in seen.
MaxPasses == 4

ScenarioAdd ==
    /\ file = NoFile
    /\ AddAlert

ScenarioPass ==
    /\ Len(seen) < MaxPasses
    /\ load_portfolio(file).alerts # <<>>
    /\ \E oracle \in Oracles(AlertSymbols(load_portfolio(file).alerts)),
          usd_data \in RateData :
          /\ Pass(load_portfolio(file), oracle, usd_data)
          /\ UNCHANGED <<held, front, races>>
          /\ seen' = IF last'.raised THEN seen
                     ELSE Append(seen, oracle[load_portfolio(file).alerts[1].symbol])

ScenarioNext == ScenarioAdd \/ ScenarioPass

SpecScenario == Init /\ [][ScenarioNext]_vars

\* ------------------------------------------------------------ vocabulary
\* The document a load would return now.
Doc == load_portfolio(file)

\* The last operation was an evaluation pass (a call of check_alerts).
IsPass == last.op = "check_alerts"

\* The positions of the stored values of alert id in a list.
At(list, id) == {i \in 1..Len(list) : list[i].created_at = id}

\* The jobs the last pass returned for alert id.
JobsFor(id) == {k \in 1..Len(last.srcs) : last.srcs[k] = id}

\* The alerts of each kind the last pass loaded.
PricePre == {i \in 1..Len(last.pre) : last.pre[i].type = "price"}
TimePre == {i \in 1..Len(last.pre) : last.pre[i].type = "time"}

\* The oracle's answer for a price alert in the last pass.
Quote(a) == last.oracle[a.symbol]

\* price is at least k percent beyond target, in the alert's direction.
Beyond(a, price, k) ==
    /\ IF a.condition = "above" THEN price >= a.target_price
       ELSE price <= a.target_price
    /\ 100 * Abs(price - a.target_price) >= k * Abs(a.target_price)

\* The level the thresholds give a price whose base condition is met.
Qualifies(a, price) ==
    IF Beyond(a, price, 10) THEN 2 ELSE IF Beyond(a, price, 5) THEN 1 ELSE 0

\* --------------------------------------------------------------- claims
\* C1: over successive passes the stored current_level of an alert never
\* decreases, and the repeat counts of the jobs emitted for one alert are
\* strictly increasing (1 < 3 < 5): no job is for a level the alert has
\* already reached, or a lower one.
StoredLevels(d, id) ==
    {d.alerts[i].current_level : i \in {j \in At(d.alerts, id) : d.alerts[j].type = "price"}}
    \cup {d.history[i].current_level :
             i \in {j \in At(d.history, id) : d.history[j].type = "price"}}

LevelsKept ==
    \A id \in DOMAIN log :
        \A l \in StoredLevels(Doc, id) : \A m \in StoredLevels(Doc', id) : m >= l

JobsAscend ==
    \A id \in DOMAIN log :
        \A i, j \in 1..Len(log[id]) : i < j => log[id][i] < log[id][j]

C1_LevelNeverDecreases == [][LevelsKept]_vars /\ []JobsAscend

\* C1's case: a pass finds an alert that reached level 1 back at a price
\* that qualifies for level 0 only, and returns no job for it.
C1_Witness ==
    /\ IsPass /\ ~last.raised
    /\ \E i \in PricePre :
        /\ last.pre[i].current_level = 1
        /\ Quote(last.pre[i]) # None
        /\ Beyond(last.pre[i], Quote(last.pre[i]).price, 0)
        /\ ~Beyond(last.pre[i], Quote(last.pre[i]).price, 5)
        /\ JobsFor(last.pre[i].created_at) = {}
        /\ Len(log[last.pre[i].created_at]) = 2

\* The selection of the level logic, for the alerts of the last pass: a
\* price alert (target # 0) whose price is resolved gets a job exactly when
\* its base condition is met and the level its percent difference selects
\* (>= 10: 2, >= 5: 1, else 0) is above its current_level; the job's
\* repeat_count is 5, 3, 1 for level 2, 1, 0.
C2_Selection ==
        \A i \in PricePre :
            LET a == last.pre[i]
                price == Quote(a).price
                expected == Beyond(a, price, 0) /\ Qualifies(a, price) > a.current_level
                jobs == JobsFor(a.created_at)
            IN  (Quote(a) # None /\ a.target_price # 0) =>
                    /\ expected <=> jobs # {}
                    /\ \A k \in jobs :
                          last.triggered_alerts[k].repeat_count
                              = (CASE Qualifies(a, price) = 2 -> 5
                                   [] Qualifies(a, price) = 1 -> 3
                                   [] OTHER -> 1)

\* C2: every pass gives each price alert whose price is resolved the job of
\* the level its percent difference selects, with repeat_count 5, 3 or 1,
\* exactly when that level is above the alert's current_level.
C2_LevelSelection == IsPass => C2_Selection

\* C2 on the passes that return: the same statement, a pass that raises left
\* aside.
C2_WhenReturned == (IsPass /\ ~last.raised) => C2_Selection

\* Highest level only, for the alerts of the last pass: at most one job per
\* alert; a new alert (level -1) whose resolved price is already 10% beyond
\* target gets exactly one job, of repeat_count 5, is archived, and never
\* gets a level-0 or level-1 job; an alert at level 1 whose price is less
\* than 5% beyond target gets none.
C4_Highest ==
        \A i \in PricePre :
            LET a == last.pre[i]
                price == Quote(a).price
                jobs == JobsFor(a.created_at)
            IN  /\ Cardinality(jobs) <= 1
                /\ (Quote(a) # None /\ a.target_price # 0) =>
                    /\ (a.current_level = -1 /\ Beyond(a, price, 10)) =>
                          /\ log[a.created_at] = <<5>>
                          /\ \E k \in jobs : last.triggered_alerts[k].repeat_count = 5
                          /\ At(Doc.alerts, a.created_at) = {}
                          /\ At(Doc.history, a.created_at) # {}
                    /\ (a.current_level = 1 /\ ~Beyond(a, price, 5)) => jobs = {}

\* C4: every pass returns at most one job per alert, the one of the highest
\* level its price qualifies for: a new alert already 10% beyond target
\* gets the single repeat_count-5 job and is archived.
C4_HighestLevelOnly == IsPass => C4_Highest

\* C4 on the passes that return.
C4_WhenReturned == (IsPass /\ ~last.raised) => C4_Highest

\* C6: a job of repeat_count 5 for a price alert means the alert left the
\* active list and is in history, as the alert at level 2 with completed_at
\* and the job's message as final_message; a job of repeat_count 1 or 3
\* means the alert is still active, is not in history, and the saved store
\* records level 0 or 1 for it.
C6_ArchiveOrAdvance ==
    IsPass =>
        \A i \in PricePre :
            LET a == last.pre[i]
            IN  \A k \in JobsFor(a.created_at) :
                  LET job == last.triggered_alerts[k]
                  IN  IF job.repeat_count = 5
                      THEN /\ At(Doc.alerts, a.created_at) = {}
                           /\ \E h \in At(Doc.history, a.created_at) :
                                 Doc.history[h] =
                                     [a EXCEPT !.current_level = 2]
                                     @@ [completed_at |-> now,
                                         final_message |-> job.message]
                      ELSE /\ At(Doc.history, a.created_at) = {}
                           /\ \E j \in At(Doc.alerts, a.created_at) :
                                 Doc.alerts[j] =
                                     [a EXCEPT !.current_level =
                                         IF job.repeat_count = 3 THEN 1 ELSE 0]

\* C6's cases: one pass archives an alert at level 2 and advances another
\* one to level 1.
C6_Witness ==
    /\ IsPass
    /\ \E k \in 1..Len(last.triggered_alerts) :
          last.triggered_alerts[k].repeat_count = 5
    /\ \E k \in 1..Len(last.triggered_alerts) :
          last.triggered_alerts[k].repeat_count = 3

\* The jobs of a time alert over its lifetime: none while it is active, one
\* once it is in history.
C8_Lifetime ==
    /\ \A i \in 1..Len(Doc.alerts) :
          Doc.alerts[i].type = "time" => log[Doc.alerts[i].created_at] = <<>>
    /\ \A i \in 1..Len(Doc.history) :
          Doc.history[i].type = "time" => log[Doc.history[i].created_at] = <<1>>

\* The time alerts of the last pass: before its trigger time an alert gets
\* no job and stays; at or after it, it gets its one job (repeat_count 1)
\* and is archived.
C8_Firing ==
        \A i \in TimePre :
            LET a == last.pre[i]
                jobs == JobsFor(a.created_at)
            IN  IF now < a.trigger_timestamp
                THEN jobs = {} /\ At(Doc.alerts, a.created_at) # {}
                ELSE /\ Cardinality(jobs) = 1
                     /\ \A k \in jobs : last.triggered_alerts[k].repeat_count = 1
                     /\ At(Doc.alerts, a.created_at) = {}
                     /\ At(Doc.history, a.created_at) # {}

\* C8: a pass before the trigger time of a time alert returns no job for
\* it; the first pass at or after the trigger time returns its one job
\* (repeat_count 1), the only job of its lifetime, and archives it.
C8_TimeAlertFiresOnce == C8_Lifetime /\ (IsPass => C8_Firing)

\* C8 on the passes that return.
C8_WhenReturned == C8_Lifetime /\ ((IsPass /\ ~last.raised) => C8_Firing)

\* After a pass, a price alert whose symbol the oracle had no data for is in
\* the active list exactly as it was, has no job, and is no cause of an
\* error: a pass in which no alert's price is resolved never raises.
C9_NoDataKeepsAlert ==
    IsPass =>
        /\ \A i \in PricePre :
              LET a == last.pre[i]
              IN  Quote(a) = None =>
                    /\ \E j \in At(Doc.alerts, a.created_at) : Doc.alerts[j] = a
                    /\ At(Doc.history, a.created_at) = {}
                    /\ JobsFor(a.created_at) = {}
        /\ (\A i \in PricePre : Quote(last.pre[i]) = None) => ~last.raised

\* The pass that follows a pass comes to every alert the first one had no
\* data for.
C9_Retried ==
    (IsPass /\ last'.op = "check_alerts") =>
        \A i \in PricePre :
            (/\ Quote(last.pre[i]) = None
             /\ \E k \in 1..Len(last.visited) :
                   last.visited[k] = last.pre[i].created_at) =>
                \E k \in 1..Len(last'.visited) :
                    last'.visited[k] = last.pre[i].created_at

\* C9: a price alert whose symbol the oracle has no data for in a pass is
\* kept in the active list unchanged, gets no job, raises no error, and is
\* evaluated again in the next pass.
C9_KeptAndEvaluatedAgain == []C9_NoDataKeepsAlert /\ [][C9_Retried]_vars

\* C10: whatever fails for one alert of a pass, every other alert whose own
\* evaluation yields a notification has its job returned, and the store is
\* saved with it advanced.
C10_FailureIsolated ==
    IsPass =>
        /\ \A i \in TimePre :
              now >= last.pre[i].trigger_timestamp =>
                  /\ JobsFor(last.pre[i].created_at) # {}
                  /\ At(Doc.alerts, last.pre[i].created_at) = {}
        /\ \A i \in PricePre :
              LET a == last.pre[i]
              IN  (/\ Quote(a) # None
                   /\ a.target_price # 0
                   /\ Beyond(a, Quote(a).price, 0)
                   /\ Qualifies(a, Quote(a).price) > a.current_level) =>
                      /\ JobsFor(a.created_at) # {}
                      /\ \A j \in At(Doc.alerts, a.created_at) :
                            Doc.alerts[j].current_level > a.current_level

\* C3 (as amended): the alert 'above' 100 created at level -1 whose four
\* successive passes see the prices 90, 101, 108, 115 gets no job from the
\* first pass, then jobs of repeat_count 1, 3 and 5, and is moved to
\* history by the pass of the third job, not before.
SeenPrices == [i \in 1..Len(seen) |-> IF seen[i] = None THEN -1 ELSE seen[i].price]

Above100(list) ==
    \E i \in At(list, 0) : list[i].condition = "above" /\ list[i].target_price = 100

C3_Scenario135 ==
    /\ (SeenPrices = <<90>> /\ Above100(Doc.alerts)) => log[0] = <<>>
    /\ (SeenPrices = <<90, 101>> /\ Above100(Doc.alerts)) => log[0] = <<1>>
    /\ (SeenPrices = <<90, 101, 108>> /\ Above100(Doc.alerts)) => log[0] = <<1, 3>>
    /\ SeenPrices = <<90, 101, 108>> => ~Above100(Doc.history)
    /\ (SeenPrices = <<90, 101, 108, 115>> /\ Above100(Doc.alerts \o Doc.history)) =>
          /\ log[0] = <<1, 3, 5>>
          /\ Above100(Doc.history)
          /\ Doc.alerts = <<>>

\* C3's case: the four passes of the scenario have run.
C3_Witness ==
    SeenPrices = <<90, 101, 108, 115>> /\ Above100(Doc.alerts \o Doc.history)

\* C3 as stated: the repeat counts of the three jobs are 1, 1, 5.
C3_Scenario115 ==
    (SeenPrices = <<90, 101, 108, 115>> /\ Above100(Doc.alerts \o Doc.history)) =>
        /\ log[0] = <<1, 1, 5>>
        /\ Above100(Doc.history)
        /\ Doc.alerts = <<>>

\* C5: in every state of the store, whatever the interleaving of the
\* operations that wrote it, every active price alert has current_level
\* -1, 0 or 1 and every price alert of history has current_level 2.
C5_LevelsInStore ==
    /\ \A i \in 1..Len(Doc.alerts) :
          Doc.alerts[i].type = "price" => Doc.alerts[i].current_level \in {-1, 0, 1}
    /\ \A j \in 1..Len(Doc.history) :
          Doc.history[j].type = "price" => Doc.history[j].current_level = 2

\* C5's case: a pass has archived a price alert at level 2 and left another
\* one active at level 1.
C5_Witness ==
    /\ IsPass
    /\ \E j \in 1..Len(Doc.history) :
          Doc.history[j].type = "price" /\ Doc.history[j].current_level = 2
    /\ \E i \in 1..Len(Doc.alerts) :
          Doc.alerts[i].type = "price" /\ Doc.alerts[i].current_level = 1

\* C7: in every state of the store, under every interleaving of the adds,
\* cancels, balance updates and passes, no alert is both in the active list
\* and in history.
C7_NeverInBoth ==
    \A i \in 1..Len(Doc.alerts), j \in 1..Len(Doc.history) :
        Doc.alerts[i].created_at # Doc.history[j].created_at

\* C7's case: an operation that had loaded the file before a pass archived
\* an alert has saved its copy after the pass, so that the alert is active
\* again, and another alert is in history.
C7_Witness ==
    /\ Doc.history # <<>>
    /\ \E i \in 1..Len(Doc.alerts) :
          /\ Doc.alerts[i].type = "price"
          /\ \E k \in 1..Len(log[Doc.alerts[i].created_at]) :
                log[Doc.alerts[i].created_at][k] = 5

\* ------------------------------------------------- interleaved saves
\* The alerts (by created_at) of a list.
Ids(list) == {list[i].created_at : i \in 1..Len(list)}

IsPrefix(a, b) == Len(a) <= Len(b) /\ SubSeq(b, 1, Len(a)) = a

\* The alerts other operations wrote to the file, or took from it, between
\* the load and the save of the operation that saved last.
WrittenMeanwhile == Ids(lost.before.alerts) \ Ids(lost.loaded.alerts)
TakenMeanwhile == Ids(lost.loaded.alerts) \ Ids(lost.before.alerts)

\* C14: after the save of an operation A, the store holds A's result only:
\* an alert another operation added between A's load and A's save is
\* absent, an alert another operation removed meanwhile is back unless A
\* itself removes it, the balances are those A loaded unless A is a balance
\* update, the history is the one A loaded plus what A archives; and no
\* operation that saves reports an error.
C14_LastWriterWins ==
    lost.saved =>
        /\ \A id \in WrittenMeanwhile : id \notin Ids(Doc.alerts)
        /\ \A id \in TakenMeanwhile :
              \/ id \in Ids(Doc.alerts) \cup Ids(Doc.history)
              \/ lost.op = "delete_alert"
        /\ lost.op # "update_balance" => Doc.balances = lost.loaded.balances
        /\ IsPrefix(lost.loaded.history, Doc.history)
        /\ (IsPass /\ lost.op = "check_alerts") => ~last.raised

\* C14's case: a pass saves after another operation has added an alert and
\* saved between the pass's load and its save.
C14_Witness ==
    /\ lost.saved
    /\ lost.op = "check_alerts"
    /\ WrittenMeanwhile # {}
    /\ Ids(lost.loaded.alerts) # {}

\* C15 as stated: an alert whose cancel has saved is in no document loaded
\* afterwards, and no pass returns a job for it afterwards, whatever
\* operation is running meanwhile.
C15_DeletedStaysDeleted ==
    \A id \in deleted :
        /\ id \notin Ids(Doc.alerts)
        /\ IsPass => \A j \in 1..Len(last.srcs) : last.srcs[j] # id

\* C15, amended: when delete_alert has saved, the file does not hold the
\* alert; the alert is in the file again only by the later save of an
\* operation that had loaded it before the cancel, and only a pass that had
\* loaded it before the cancel returns a job for it.
C15_DeletedUntilOverwritten ==
    \A id \in deleted :
        /\ id \in Ids(Doc.alerts) =>
              /\ lost.saved
              /\ lost.op # "delete_alert"
              /\ id \in Ids(lost.loaded.alerts)
        /\ (IsPass /\ \E j \in 1..Len(last.srcs) : last.srcs[j] = id) =>
              /\ lost.op = "check_alerts"
              /\ id \in Ids(lost.loaded.alerts)

\* C15's case: a cancel has just saved while a pass that had loaded the
\* cancelled alert is still running.
C15_Witness ==
    /\ deleted # {}
    /\ last.op = "delete_alert"
    /\ held["loop"].op = "check_alerts"
    /\ \E id \in deleted : id \in Ids(held["loop"].data.alerts)
    /\ \A id \in deleted : id \notin Ids(Doc.alerts)

\* C16 as stated: whatever operations interleave, a save leaves every
\* history entry the file held in place, unmodified, at its position.
C16_HistoryAppendOnly ==
    lost.saved => IsPrefix(lost.before.history, Doc.history)

\* C16, amended: a save leaves every history entry of the document the
\* saving operation had loaded in place, unmodified, at its position; only
\* a pass adds entries, after them.
C16_LoadedHistoryKept ==
    lost.saved =>
        /\ IsPrefix(lost.loaded.history, Doc.history)
        /\ lost.op # "check_alerts" => Doc.history = lost.loaded.history

\* C16's case: a pass that had loaded the current, non-empty history
\* archives one more alert.
C16_Witness ==
    /\ lost.saved
    /\ lost.op = "check_alerts"
    /\ lost.loaded.history # <<>>
    /\ lost.loaded.history = lost.before.history
    /\ Len(Doc.history) > Len(lost.loaded.history)

\* ------------------------------------------------------------ dispatch
\* check_alerts_job: one call of check_alerts, then for each returned job,
\* in the order of the list, the sends of its burst.  The run is a
\* coroutine of the event loop; it gives way at each sleep and each send.
\* The clock of a run counts quarters of a second from the return of
\* check_alerts; 0.75 s is Delay.
Delay == 3

\* The run goes on to the next job, or ends after the last one.
NextItem(d) ==
    [d EXCEPT !.item = d.item + 1, !.i = 0, !.half = 1, !.mark = d.clock,
              !.pc = IF d.item + 1 > Len(d.triggered) THEN "done" ELSE "run"]

\* The sleep the code makes before the send the run has come to: none
\* before the first send of a job, 0.75 * (i + 1) before the first send of
\* repetition i > 0 (line 126), 0.75 before the second send of repetition 0
\* (line 155), none before the second send of a later repetition.
SleepBefore(d) ==
    IF d.half = 1 THEN (IF d.i > 0 THEN Delay * (d.i + 1) ELSE 0)
    ELSE (IF d.i = 0 THEN Delay ELSE 0)

\* The record of a message that was sent: its job, its repetition, the time
\* of the send and the time since the previous send of the run (or since
\* the run took the job).
Sent(d) ==
    [item |-> d.item, user_id |-> d.triggered[d.item].user_id, i |-> d.i,
     at |-> d.clock + SleepBefore(d),
     gap |-> d.clock + SleepBefore(d) - d.mark]

\* The timer of the job queue fires: check_alerts runs; if it raises, the
\* run ends there.
RunJob ==
    /\ disp.pc # "run"
    /\ \E oracle \in Oracles(AlertSymbols(load_portfolio(file).alerts)),
          usd_data \in RateData :
          Pass(load_portfolio(file), oracle, usd_data)
    /\ disp' = IF last'.raised THEN NoRun
               ELSE [pc |-> IF last'.triggered_alerts = <<>> THEN "done" ELSE "run",
                     triggered |-> last'.triggered_alerts,
                     srcs |-> last'.srcs,
                     item |-> 1, i |-> 0, half |-> 1, clock |-> 0, mark |-> 0,
                     sent |-> <<>>, failed |-> {}]
    /\ UNCHANGED <<seen, held, calls, races>>

\* The first send of a repetition (line 129), after its sleep.
Send1 ==
    /\ disp.pc = "run"
    /\ disp.half = 1
    /\ disp' = [disp EXCEPT !.clock = @ + SleepBefore(disp),
                            !.mark = disp.clock + SleepBefore(disp),
                            !.sent = Append(@, Sent(disp)),
                            !.half = 2]
    /\ UNCHANGED <<file, now, last, log, seen, held, calls, races>>

\* The second send of a repetition (line 156), after its sleep; the loop
\* then goes to the next repetition, or the run to the next job.
Send2 ==
    /\ disp.pc = "run"
    /\ disp.half = 2
    /\ LET d == [disp EXCEPT !.clock = @ + SleepBefore(disp),
                             !.mark = disp.clock + SleepBefore(disp),
                             !.sent = Append(@, Sent(disp))]
       IN  disp' = IF disp.i + 1 < disp.triggered[disp.item].repeat_count
                   THEN [d EXCEPT !.i = @ + 1, !.half = 1]
                   ELSE NextItem(d)
    /\ UNCHANGED <<file, now, last, log, seen, held, calls, races>>

\* A send raises: the except clause of line 158 logs the error and the run
\* goes on to the next job.
SendFails ==
    /\ disp.pc = "run"
    /\ disp' = NextItem([disp EXCEPT !.clock = @ + SleepBefore(disp),
                                     !.failed = @ \cup {disp.item}])
    /\ UNCHANGED <<file, now, last, log, seen, held, calls, races>>

DispatchNext ==
    \/ AddAlert
    \/ AddTimeAlert
    \/ Tick
    \/ RunJob
    \/ Send1
    \/ Send2
    \/ SendFails

SpecDispatch == Init /\ [][DispatchNext]_vars

\* The jobs whose burst the run has ended without a failed send.
Dispatched ==
    IF disp.pc = "idle" THEN {}
    ELSE {k \in 1..Len(disp.triggered) :
            /\ k \notin disp.failed
            /\ (k < disp.item \/ disp.pc = "done")}

\* The messages of the run that are for job k.
SentFor(k) == {m \in 1..Len(disp.sent) : disp.sent[m].item = k}

\* C11: when no send of a job fails, the run sends exactly repeat_count
\* messages for the job.
C11_ExactlyNMessages ==
    \A k \in Dispatched : Cardinality(SentFor(k)) = disp.triggered[k].repeat_count

\* C12: every message of a burst, the first one included, is sent after one
\* delay of 0.75 s since the previous send of the burst or, for the first,
\* since the run took the job.
C12_FixedDelay ==
    disp.pc # "idle" => \A m \in 1..Len(disp.sent) : disp.sent[m].gap = Delay

\* C13: the jobs of one pass do not wait for each other's bursts: the first
\* message of every job is sent after no more than the job's own delay
\* (in runs where no send fails).
C13_JobsDoNotWait ==
    (disp.pc # "idle" /\ disp.failed = {}) =>
        \A m \in 1..Len(disp.sent) :
            (\A n \in 1..(m - 1) : disp.sent[n].item # disp.sent[m].item)
                => disp.sent[m].at <= Delay

\* ----------------------------------------------------------- front end
\* The operations the chat commands and the agent's tools call, one at a
\* time, on a store that may have been written by an earlier version of
\* the program: a document that lacks some of the top-level keys.
Keys == {"alerts", "balances", "history", "snapshots", "newsletter_subs"}

RawDocs == {NoFile} \cup {[k \in K |-> EmptyDoc[k]] : K \in SUBSET Keys \ {{}}}

\* x in list.
In(list, x) == \E i \in 1..Len(list) : list[i] = x

\* list.remove(x): the list without the first x.
Remove(list, x) ==
    LET i == CHOOSE i \in 1..Len(list) :
                 list[i] = x /\ \A j \in 1..(i - 1) : list[j] # x
    IN  SubSeq(list, 1, i - 1) \o SubSeq(list, i + 1, Len(list))

\* A subscribe that appends without looking for the user in the list.
subscribe_newsletter_appending(data, user_id) ==
    [saved |-> TRUE,
     data |-> [data EXCEPT !.newsletter_subs = Append(@, user_id)],
     result |-> "Gunluk bulten aboneliginiz baslatildi."]

subscribe_newsletter(data, user_id) ==
    LET subs == data.newsletter_subs
    IN  IF ~In(subs, user_id)
        THEN [saved |-> TRUE,
              data |-> [data EXCEPT !.newsletter_subs = Append(subs, user_id)],
              result |-> "Gunluk bulten aboneliginiz baslatildi."]
        ELSE [saved |-> FALSE, data |-> data,
              result |-> "Gunluk bulten aboneliginiz baslatildi."]

unsubscribe_newsletter(data, user_id) ==
    LET subs == data.newsletter_subs
    IN  IF In(subs, user_id)
        THEN [saved |-> TRUE,
              data |-> [data EXCEPT !.newsletter_subs = Remove(subs, user_id)],
              result |-> "Gunluk bulten iptal edildi."]
        ELSE [saved |-> FALSE, data |-> data, result |-> "Zaten abone degilsiniz."]

\* The values the agent may pass as index: integers, floats (a numerator
\* over a denominator), text, None.
IndexInputs ==
    [kind : {"int"}, v : -1..3]
    \cup [kind : {"float"}, num : {2, 3}, den : {1, 2}]
    \cup [kind : {"str"}, text : {"abc"}]
    \cup {None}

\* int(index): the integer itself, a float cut towards zero, ValueError
\* for text that is not a number, TypeError for None.
int_of(index) ==
    IF index = None THEN [ok |-> FALSE, error |-> "TypeError"]
    ELSE IF index.kind = "int" THEN [ok |-> TRUE, v |-> index.v]
    ELSE IF index.kind = "float" THEN [ok |-> TRUE, v |-> index.num \div index.den]
    ELSE [ok |-> FALSE, error |-> "ValueError"]

InitFront ==
    /\ file \in RawDocs
    /\ now = 0
    /\ last = NoOp
    /\ log = [c \in 0..MaxTime |-> <<>>]
    /\ seen = <<>>
    /\ held = [th \in Threads |-> Idle]
    /\ disp = NoRun
    /\ calls = [u \in Users |-> "none"]
    /\ lost = NoSave
    /\ deleted = {}

\* /start: the user is subscribed to the newsletter.
Subscribe ==
    \E user_id \in Users :
        LET r == subscribe_newsletter(load_portfolio(file), user_id)
        IN  /\ file' = IF r.saved THEN save_portfolio(r.data) ELSE file
            /\ last' = [op |-> "subscribe_newsletter", user_id |-> user_id,
                        saved |-> r.saved, result |-> r.result]
            /\ calls' = [calls EXCEPT ![user_id] = "subscribe"]
            /\ UNCHANGED <<now, log, seen, held, disp, races>>

\* /iptal_bulten.
Unsubscribe ==
    \E user_id \in Users :
        LET r == unsubscribe_newsletter(load_portfolio(file), user_id)
        IN  /\ file' = IF r.saved THEN save_portfolio(r.data) ELSE file
            /\ last' = [op |-> "unsubscribe_newsletter", user_id |-> user_id,
                        saved |-> r.saved, result |-> r.result]
            /\ calls' = [calls EXCEPT ![user_id] = "unsubscribe"]
            /\ UNCHANGED <<now, log, seen, held, disp, races>>

\* The agent's cancel_alert_tool: int(index), then delete_alert.
CancelAlert ==
    \E user_id \in Users, index \in IndexInputs :
        LET idx == int_of(index)
        IN  /\ IF ~idx.ok
               THEN /\ file' = file
                    /\ last' = [op |-> "cancel_alert_tool", user_id |-> user_id,
                                index |-> index, called |-> FALSE, saved |-> FALSE,
                                result |-> "Lutfen gecerli bir sayi belirtin."]
               ELSE LET r == delete_alert(load_portfolio(file), user_id, idx.v)
                    IN  /\ file' = IF r.saved THEN save_portfolio(r.data) ELSE file
                        /\ last' = [op |-> "cancel_alert_tool", user_id |-> user_id,
                                    index |-> index, called |-> TRUE,
                                    alert_index |-> idx.v, saved |-> r.saved,
                                    result |-> r.result]
            /\ UNCHANGED <<now, log, seen, held, front, races>>

\* The agent's update_balance_tool.
UpdateBalance(requests) ==
    \E r \in requests :
        /\ file' = save_portfolio(update_balance(load_portfolio(file), r.user_id,
                                                 r.symbol, r.amount, r.unit))
        /\ last' = [op |-> "update_balance", r |-> r,
                     before |-> LET rows == load_portfolio(file).balances
                                    u == ToString(r.user_id)
                                IN  IF u \in DOMAIN rows /\ r.symbol \in DOMAIN rows[u]
                                    THEN rows[u][r.symbol] ELSE None]
        /\ UNCHANGED <<now, log, seen, held, front, races>>

FrontNext ==
    \/ Subscribe
    \/ Unsubscribe
    \/ CancelAlert
    \/ UpdateBalance(BalanceRequests)
    \/ AddAlert
    \/ AddTimeAlert

SpecFront == InitFront /\ [][FrontNext]_vars

\* The positions in a list of alerts of those owned by user u.
OwnedBy(alerts, u) == {i \in 1..Len(alerts) : alerts[i].user_id = u}

\* The position in the list of the k-th alert owned by u.
Kth(alerts, u, k) ==
    CHOOSE i \in OwnedBy(alerts, u) :
        Cardinality({j \in OwnedBy(alerts, u) : j <= i}) = k

\* The last step was a cancel that called delete_alert(u, k).
Cancelled(l) == l.op = "cancel_alert_tool" /\ l.called

\* C17: delete_alert(u, k) with 1 <= k <= n, n the number of u's alerts,
\* removes the k-th alert of u in stored order, price and time alerts
\* counted together, and leaves the other alerts, their order, the
\* balances, the history, the snapshots and the subscribers as they were;
\* with n = 1 and k = 1 the user has no alert left.
C17_RemovesExactlyKth ==
    [][ LET pre == load_portfolio(file)
            post == load_portfolio(file')
            u == last'.user_id
            k == last'.alert_index
            n == Cardinality(OwnedBy(alerts_of(pre), u))
        IN  (Cancelled(last') /\ 1 <= k /\ k <= n) =>
                /\ last'.saved
                /\ post = [pre EXCEPT !.alerts = Without(@, Kth(pre.alerts, u, k))]
                /\ (n = 1 => OwnedBy(post.alerts, u) = {})
      ]_vars

\* C17's case: of two stored alerts, the first one another user's, a user
\* has cancelled their first alert, and the other user's alert is still
\* stored.
C17_Witness ==
    /\ Cancelled(last)
    /\ last.saved
    /\ last.alert_index = 1
    /\ now = 2
    /\ Len(Doc.alerts) = 1
    /\ OwnedBy(Doc.alerts, last.user_id) = {}

\* The index is not an integer: None, text that is not a number, a float
\* with a fraction.
NonInteger(index) ==
    \/ index = None
    \/ index.kind = "str"
    \/ index.kind = "float" /\ index.num % index.den # 0

\* C18: a cancel with an index that is not an integer removes no alert (it
\* is turned down before delete_alert is called).
C18_NonIntegerRejected ==
    (last.op = "cancel_alert_tool" /\ NonInteger(last.index)) =>
        ~(last.called /\ last.saved)

\* C19: after any calls of subscribe_newsletter and unsubscribe_newsletter
\* the list holds each user at most once, and holds a user exactly when the
\* last call for them was a subscribe; a subscribe of a subscribed user and
\* an unsubscribe of a user who is not subscribed leave the file as it is.
C19_SubscriberSet ==
    /\ [](LET subs == Doc.newsletter_subs
          IN  /\ \A i, j \in 1..Len(subs) : subs[i] = subs[j] => i = j
              /\ \A u \in Users :
                    calls[u] # "none" => (In(subs, u) <=> calls[u] = "subscribe"))
    /\ [][ LET subs == load_portfolio(file).newsletter_subs
           IN  /\ (last'.op = "subscribe_newsletter" /\ In(subs, last'.user_id))
                      => file' = file
               /\ (last'.op = "unsubscribe_newsletter" /\ ~In(subs, last'.user_id))
                      => file' = file
         ]_vars

\* C19's case: a user subscribed twice, another one subscribed and
\* unsubscribed.
C19_Witness ==
    /\ last.op = "subscribe_newsletter"
    /\ ~last.saved
    /\ \E u \in Users : calls[u] = "unsubscribe"
    /\ Len(Doc.newsletter_subs) = 1

\* C20: on a file that lacks top-level keys, the operations that change
\* the store succeed: none of them raises.
C20_MutationsSucceed ==
    last.op \in {"add_alert", "add_time_alert", "update_balance",
                 "subscribe_newsletter"} => "raised" \notin DOMAIN last

\* ----------------------------------------------------------- valuation
\* The amounts and values of get_portfolio_status and generate_newsletter
\* are floats; the model computes them exactly, as a whole part w and a
\* fraction n / d with 0 <= n < d in lowest terms, so that no product
\* leaves the range of the integers.
RECURSIVE Gcd(_, _)
Gcd(a, b) == IF b = 0 THEN a ELSE Gcd(b, a % b)

Norm(w, n, d) ==
    LET g == IF n % d = 0 THEN d ELSE Gcd(n % d, d)
    IN  [w |-> w + (n \div d), n |-> (n % d) \div g, d |-> d \div g]

Zero == [w |-> 0, n |-> 0, d |-> 1]

\* The float of a decimal literal a / b.
Float(a, b) == Norm(0, a, b)

\* m * k and m / k for an integer k (k > 0 for the quotient).
Times(m, k) ==
    LET g == Gcd(k, m.d) IN Norm(m.w * k, m.n * (k \div g), m.d \div g)

Over(m, k) == Norm(m.w \div k, (m.w % k) * m.d + m.n, m.d * k)

Plus(a, b) == Norm(a.w + b.w, a.n * b.d + b.n * a.d, a.d * b.d)

\* a >= b, and a - b for a >= b.
Ge(a, b) == a.w > b.w \/ (a.w = b.w /\ a.n * b.d >= b.n * a.d)

Minus(a, b) ==
    IF a.n * b.d >= b.n * a.d
    THEN Norm(a.w - b.w, a.n * b.d - b.n * a.d, a.d * b.d)
    ELSE Norm(a.w - b.w - 1, a.d * b.d + a.n * b.d - b.n * a.d, a.d * b.d)

\* a - b with its sign.
Diff(a, b) ==
    IF Ge(a, b) THEN [sign |-> 1, abs |-> Minus(a, b)]
    ELSE [sign |-> -1, abs |-> Minus(b, a)]

\* The text of f"{m:.2f}": the hundredths of m, rounded.
Fmt2(m) == m.w * 100 + ((2 * m.n * 100 + m.d) \div (2 * m.d))

\* ------------------------------------------------ snapshots, newsletter
\* The watchlist of save_snapshot and the one of generate_newsletter.
SnapshotWatchlist ==
    {"THYAO.IS", "GARAN.IS", "BIST100", "USDTRY=X", "GC=F", "BTC-USD", "ETH-USD",
     "AAPL", "TSLA"}
MoversWatchlist ==
    {"BIST100", "THYAO.IS", "GARAN.IS", "BTC-USD", "ETH-USD", "AAPL", "GC=F"}

Labels == {"morning", "evening"}

\* The symbols of all users' balance rows.
BalanceSymbols(data) == UNION {DOMAIN data.balances[u] : u \in DOMAIN data.balances}

\* What get_market_data may return for the symbols of a snapshot: a price
\* that moves for THYAO.IS, one that can be missing for AAPL; the oracle has
\* no data for the symbols not named here.
Quotes(symbol) ==
    IF symbol = "THYAO.IS" THEN {[price |-> 300], [price |-> 330]}
    ELSE IF symbol = "AAPL" THEN {None, [price |-> 200]}
    ELSE IF symbol = "TRY=X" THEN {[price |-> 30]}
    ELSE IF symbol \in {"GC=F", "ALTIN"} THEN {[price |-> 2000]}
    ELSE {None}

\* An oracle whose answers do not vary.
SteadyQuotes(symbol) ==
    IF symbol = "THYAO.IS" THEN {[price |-> 300]} ELSE {None}

\* The oracle's answers to the lookups of one job: one per symbol asked,
\* quotes[sym] being what it may answer for sym.
Answers(asked, quotes) ==
    LET live == {sym \in asked : quotes[sym] # {None}}
    IN  {[sym \in asked |-> IF sym \in live THEN f[sym] ELSE None] :
            f \in {g \in [live -> UNION {quotes[sym] : sym \in live}] :
                      \A sym \in live : g[sym] \in quotes[sym]}}

\* What the oracle may answer to the lookups of a newsletter job: steady
\* prices, or prices that vary.
JobQuotes(steady, asked) ==
    [sym \in asked |-> IF steady THEN SteadyQuotes(sym) ELSE Quotes(sym)]

\* The symbols save_snapshot looks up.
snapshot_symbols(data) ==
    AlertSymbols(alerts_of(data)) \cup BalanceSymbols(data) \cup SnapshotWatchlist

\* A trim that keeps the ten oldest snapshots.
trim_oldest(snapshots) ==
    IF Len(snapshots) > 10 THEN SubSeq(snapshots, 1, 10) ELSE snapshots

\* data["snapshots"][-10:] when there are more than ten.
trim(snapshots) ==
    IF Len(snapshots) > 10
    THEN SubSeq(snapshots, Len(snapshots) - 9, Len(snapshots))
    ELSE snapshots

save_snapshot(data, label, t, answer) ==
    LET symbols == DOMAIN answer
        prices == [sym \in {x \in symbols : answer[x] # None} |-> answer[sym].price]
        snapshot == [timestamp |-> t, label |-> label, prices |-> prices]
    IN  [data EXCEPT !.snapshots = trim(Append(@, snapshot))]

get_last_snapshot(data, current_label) ==
    LET snaps == data.snapshots
        target_label == IF current_label = "morning" THEN "evening" ELSE "morning"
        found == {i \in 1..Len(snaps) : snaps[i].label = target_label}
    IN  IF snaps = <<>> THEN None
        ELSE IF found # {}
        THEN snaps[CHOOSE i \in found : \A j \in found : j <= i]
        ELSE snaps[Len(snaps)]

\* prices.get(sym, 0).
price_of(prices, sym) == IF sym \in DOMAIN prices THEN prices[sym] ELSE 0

\* prices.get("TRY=X", 1.0).
rate_of(prices) == IF "TRY=X" \in DOMAIN prices THEN prices["TRY=X"] ELSE 1

\* The tests on the text of a symbol and of a unit.
IsGold(symbol) == symbol \in {"ALTIN", "GOLD", "GC=F"}
IsGram(unit) == unit \in {"gr", "gram", "g"}
IsTry(symbol) == symbol \in {"THYAO.IS", "GARAN.IS", "TRY=X"}

\* amount * multiplier * price, the multiplier 1.0 / 31.1035 for gold held
\* in grams and 1.0 otherwise.
val_in_asset_curr(symbol, details, price) ==
    IF IsGold(symbol) /\ IsGram(details.unit)
    THEN Over(Times(Times(details.amount, price), 10000 \div Gcd(10000, 311035)),
              311035 \div Gcd(10000, 311035))
    ELSE Times(details.amount, price)

\* m / rate if rate > 0 else 0.
in_usd(m, rate) == IF rate > 0 THEN Over(m, rate) ELSE Zero

\* The current and the previous value in USD of one balance row (lines
\* 359-393): a row in a TRY symbol is divided by the current rate; its
\* previous value is divided by the current rate and then by the previous
\* rate.
row_values(symbol, details, curr_prices, prev_prices) ==
    LET query_sym == IF IsGold(symbol) THEN "GC=F" ELSE symbol
        curr_p == price_of(curr_prices, query_sym)
        prev_0 == price_of(prev_prices, query_sym)
        prev_p == IF prev_0 = 0 THEN curr_p ELSE prev_0
        usd_try == rate_of(curr_prices)
        prev_usd_rate == rate_of(prev_prices)
        val_c == val_in_asset_curr(symbol, details, curr_p)
        val_p == val_in_asset_curr(symbol, details, prev_p)
    IN  [val_c |-> IF IsTry(symbol) THEN in_usd(val_c, usd_try) ELSE val_c,
         val_p |-> IF IsTry(symbol)
                   THEN in_usd(in_usd(val_p, usd_try), prev_usd_rate)
                   ELSE val_p]

\* The totals of the rows of a user's balances.
RECURSIVE totals(_, _, _, _)
totals(user_balances, symbols, curr_prices, prev_prices) ==
    IF symbols = {} THEN [cur |-> Zero, prev |-> Zero]
    ELSE LET sym == CHOOSE x \in symbols : TRUE
             rest == totals(user_balances, symbols \ {sym}, curr_prices, prev_prices)
             row == row_values(sym, user_balances[sym], curr_prices, prev_prices)
         IN  [cur |-> Plus(rest.cur, row.val_c), prev |-> Plus(rest.prev, row.val_p)]

\* ((cp - pp) / pp) * 100 as the pair of its numerator and denominator, or
\* None when one of the prices is missing.
pct_change(curr_prices, prev_prices, sym) ==
    LET cp == price_of(curr_prices, sym)
        pp == price_of(prev_prices, sym)
    IN  IF cp # 0 /\ pp # 0 THEN [num |-> (cp - pp) * 100, den |-> pp] ELSE None

\* generate_newsletter: None without a snapshot, else the figures of the
\* report: the snapshots compared, the percent change of each symbol the
\* user follows, the totals of the balances with their change, and the
\* percent change of each watchlist symbol with data.  The snapshot prices
\* of the model are positive, so the live lookup of line 322 is not made,
\* and at most four watchlist symbols have data, so all movers are shown.
generate_newsletter(data, user_id, label) ==
    LET snaps == data.snapshots
        current_snap == snaps[Len(snaps)]
        found == get_last_snapshot(data, label)
        prev_snap == IF found = None THEN current_snap ELSE found
        curr_prices == current_snap.prices
        prev_prices == prev_snap.prices
        usd_try == rate_of(curr_prices)
        user_str == ToString(user_id)
        alerts == alerts_of(data)
        user_alerts == {i \in 1..Len(alerts) :
                           ToString(alerts[i].user_id) = user_str
                           /\ alerts[i].type = "price"}
        user_balances == IF user_str \in DOMAIN data.balances
                         THEN data.balances[user_str] ELSE <<>>
        relevant_symbols == {alerts[i].symbol : i \in user_alerts}
                            \cup DOMAIN user_balances
        t == totals(user_balances, DOMAIN user_balances, curr_prices, prev_prices)
        diff_bal == Diff(t.cur, t.prev)
    IN  IF snaps = <<>> THEN None
        ELSE [user_id |-> user_id,
              current |-> current_snap,
              previous |-> prev_snap,
              lines |-> [sym \in relevant_symbols |->
                            pct_change(curr_prices, prev_prices, sym)],
              has_balances |-> DOMAIN user_balances # {},
              total_usd_cur |-> t.cur,
              total_usd_prev |-> t.prev,
              diff_bal |-> diff_bal,
              pct_bal |-> IF t.prev # Zero
                          THEN [num |-> diff_bal, den |-> t.prev] ELSE None,
              total_try_cur |-> Times(t.cur, usd_try),
              movers |-> [w \in {x \in MoversWatchlist :
                                    pct_change(curr_prices, prev_prices, x) # None} |->
                             pct_change(curr_prices, prev_prices, w)]]

\* The bounds of the two explorations of the newsletter job: enough jobs to
\* fill the ring of snapshots, and a few jobs with varying prices.
MaxSnaps == 11
MaxNews == 2

\* newsletter_job: save_snapshot(label), then one report per subscriber.
NewsletterJob(steady, max) ==
    \E label \in Labels :
      \E answer \in Answers(snapshot_symbols(load_portfolio(file)),
                            JobQuotes(steady, snapshot_symbols(load_portfolio(file)))) :
        LET data == save_snapshot(load_portfolio(file), label, now, answer)
            subs == data.newsletter_subs
        IN  /\ now < max
            /\ file' = save_portfolio(data)
            /\ now' = now + 1
            /\ last' = [op |-> "newsletter_job", label |-> label,
                        pre |-> load_portfolio(file).snapshots,
                        reports |-> [i \in 1..Len(subs) |->
                                        generate_newsletter(data, subs[i], label)]]
            /\ UNCHANGED <<log, seen, held, front, races>>

SnapNext == NewsletterJob(TRUE, MaxSnaps) \/ Subscribe

SpecSnap == Init /\ [][SnapNext]_vars

\* C21: after any number of save_snapshot calls the list holds at most ten
\* snapshots, exactly the most recently saved ones in the order of their
\* saving, and a save leaves every snapshot it retains as it was.
C21_RingOfTen ==
    /\ [](LET snaps == Doc.snapshots
          IN  /\ Len(snaps) = IF now < 10 THEN now ELSE 10
              /\ \A i \in 1..Len(snaps) :
                    snaps[i].timestamp = now - Len(snaps) + i - 1)
    /\ [][ LET pre == load_portfolio(file).snapshots
               post == load_portfolio(file').snapshots
           IN  last'.op = "newsletter_job" =>
                  /\ post[Len(post)].label = last'.label
                  /\ \A i \in 1..(Len(post) - 1) :
                        post[i] = pre[Len(pre) - (Len(post) - 1) + i]
         ]_vars

\* C21's case: the eleventh snapshot has been saved and the oldest one has
\* left the list.
C21_Witness ==
    /\ last.op = "newsletter_job"
    /\ now = 11
    /\ Len(Doc.snapshots) = 10
    /\ Doc.snapshots[1].timestamp = 1
    /\ Len(last.pre) = 10

\* The balances users report while newsletters go out: a share and cash
\* in lira for user 1, a share in dollars for user 2.
NewsBalances ==
    {[user_id |-> 1, symbol |-> "THYAO.IS", amount |-> Float(10, 1), unit |-> "lot"],
     [user_id |-> 1, symbol |-> "TRY=X", amount |-> Float(900, 1), unit |-> "adet"],
     [user_id |-> 2, symbol |-> "AAPL", amount |-> Float(1, 1), unit |-> "adet"]}

NewsNext ==
    \/ NewsletterJob(FALSE, MaxNews)
    \/ Subscribe
    \/ UpdateBalance(NewsBalances)

SpecNews == Init /\ [][NewsNext]_vars

\* The reports of the last newsletter job.
Reports == IF last.op = "newsletter_job" THEN last.reports ELSE <<>>

\* C22: with exactly one snapshot stored, a report compares the snapshot
\* with itself and every change it shows is zero: the percent change of
\* each symbol, the change of the balance total in dollars and in percent,
\* the percent change of each mover.
C22_SingleSnapshotZero ==
    Len(Doc.snapshots) = 1 =>
        \A i \in 1..Len(Reports) :
            LET r == Reports[i]
            IN  /\ r.previous = r.current
                /\ \A sym \in DOMAIN r.lines :
                      r.lines[sym] # None => r.lines[sym].num = 0
                /\ r.diff_bal.abs = Zero
                /\ r.pct_bal # None => r.pct_bal.num.abs = Zero
                /\ \A w \in DOMAIN r.movers : r.movers[w].num = 0

\* The stored snapshots before the newest one whose label is not its label.
Opposite(snaps) ==
    {i \in 1..(Len(snaps) - 1) : snaps[i].label # snaps[Len(snaps)].label}

\* C26: a report takes the last stored snapshot as current and, as
\* previous, the most recent snapshot of the opposite label; without one,
\* the most recent other snapshot; and the current one itself only when no
\* other snapshot is stored.
C26_PreviousSnapshot ==
    \A i \in 1..Len(Reports) :
        LET r == Reports[i]
            snaps == Doc.snapshots
        IN  /\ r.current = snaps[Len(snaps)]
            /\ r.previous =
                  IF Opposite(snaps) # {}
                  THEN snaps[CHOOSE k \in Opposite(snaps) :
                                \A j \in Opposite(snaps) : j <= k]
                  ELSE IF Len(snaps) > 1 THEN snaps[Len(snaps) - 1]
                  ELSE snaps[Len(snaps)]

\* ------------------------------------------------------ portfolio status
\* The balances users report: gold in grams and a share in lira for user 1
\* (the share at two amounts), a share in dollars for user 2.
StatusBalances ==
    {[user_id |-> 1, symbol |-> "ALTIN", amount |-> Float(311034768, 1000000),
      unit |-> "gram"],
     [user_id |-> 1, symbol |-> "THYAO.IS", amount |-> Float(10, 1), unit |-> "lot"],
     [user_id |-> 1, symbol |-> "THYAO.IS", amount |-> Float(20, 1), unit |-> "lot"],
     [user_id |-> 2, symbol |-> "AAPL", amount |-> Float(1, 1), unit |-> "adet"]}

\* What get_market_data may return to get_portfolio_status: no data, or
\* the price and the currency of the quote.
StatusQuotes(symbol) ==
    {None} \cup
    (IF symbol = "GC=F" THEN {[price |-> 2000, currency |-> "USD"]}
     ELSE IF symbol = "THYAO.IS" THEN {[price |-> 300, currency |-> "TRY"]}
     ELSE IF symbol = "AAPL" THEN {[price |-> 200, currency |-> "USD"]}
     ELSE IF symbol = "TRY=X" THEN {[price |-> 30, currency |-> "TRY"]}
     ELSE {})

\* The symbol get_portfolio_status asks the oracle for.
query_symbol(symbol) == IF IsGold(symbol) THEN "GC=F" ELSE symbol

\* The row of the report for one balance (lines 126-171): not resolved, or
\* its value in dollars and in lira.
status_row(symbol, details, market_data, usd_try_rate) ==
    IF market_data = None THEN [resolved |-> FALSE]
    ELSE LET v == val_in_asset_curr(symbol, details, market_data.price)
         IN  IF market_data.currency = "TRY"
             THEN [resolved |-> TRUE, val_try |-> v, val_usd |-> in_usd(v, usd_try_rate)]
             ELSE [resolved |-> TRUE, val_usd |-> v, val_try |-> Times(v, usd_try_rate)]

\* The sum of a field of the resolved rows.
RECURSIVE Sum(_, _, _)
Sum(rows, symbols, usd) ==
    IF symbols = {} THEN Zero
    ELSE LET sym == CHOOSE x \in symbols : TRUE
             rest == Sum(rows, symbols \ {sym}, usd)
         IN  IF rows[sym].resolved
             THEN Plus(rest, IF usd THEN rows[sym].val_usd ELSE rows[sym].val_try)
             ELSE rest

\* A valuation that gives up when a price is missing.
get_portfolio_status_all_or_nothing(data, user_id, usd_data, answer) ==
    LET user_str == ToString(user_id)
        balances == IF user_str \in DOMAIN data.balances
                    THEN data.balances[user_str] ELSE <<>>
        usd_try_rate == IF usd_data # None THEN usd_data.price ELSE 1
        rows == [symbol \in DOMAIN balances |->
                    status_row(symbol, balances[symbol],
                               answer[query_symbol(symbol)], usd_try_rate)]
        complete == \A symbol \in DOMAIN balances : rows[symbol].resolved
    IN  IF DOMAIN balances = {} THEN [empty |-> TRUE]
        ELSE [empty |-> FALSE, usd_try_rate |-> usd_try_rate, rows |-> rows,
              total_usd |-> IF complete THEN Sum(rows, DOMAIN balances, TRUE) ELSE Zero,
              total_try |-> IF complete THEN Sum(rows, DOMAIN balances, FALSE) ELSE Zero]

\* get_portfolio_status: the text for a user without balances, or the rows
\* and the totals of the report.
get_portfolio_status(data, user_id, usd_data, answer) ==
    LET user_str == ToString(user_id)
        balances == IF user_str \in DOMAIN data.balances
                    THEN data.balances[user_str] ELSE <<>>
        usd_try_rate == IF usd_data # None THEN usd_data.price ELSE 1
        rows == [symbol \in DOMAIN balances |->
                    status_row(symbol, balances[symbol],
                               answer[query_symbol(symbol)], usd_try_rate)]
    IN  IF DOMAIN balances = {} THEN [empty |-> TRUE]
        ELSE [empty |-> FALSE, usd_try_rate |-> usd_try_rate, rows |-> rows,
              total_usd |-> Sum(rows, DOMAIN balances, TRUE),
              total_try |-> Sum(rows, DOMAIN balances, FALSE)]

\* The agent's get_portfolio_tool.
GetPortfolioStatus ==
    \E user_id \in Users, usd_data \in StatusQuotes("TRY=X") :
        LET data == load_portfolio(file)
            user_str == ToString(user_id)
            asked == IF user_str \in DOMAIN data.balances
                     THEN {query_symbol(sym) : sym \in DOMAIN data.balances[user_str]}
                     ELSE {}
        IN  \E answer \in Answers(asked, [sym \in asked |-> StatusQuotes(sym)]) :
                /\ last' = [op |-> "get_portfolio_status", user_id |-> user_id,
                            usd_data |-> usd_data, answer |-> answer,
                            result |-> get_portfolio_status(data, user_id,
                                                            usd_data, answer)]
                /\ UNCHANGED <<file, now, log, seen, held, front, races>>

StatusNext ==
    \/ UpdateBalance(StatusBalances)
    \/ GetPortfolioStatus
    \/ AddTimeAlert
    \/ CheckAlerts
    \/ Subscribe
    \/ NewsletterJob(TRUE, MaxTime)

SpecStatus == Init /\ [][StatusNext]_vars

\* The balance rows of the document other than the row of user u for
\* symbol sym: a pair of owner and symbol for each.
OtherRows(data, u, sym) ==
    {<<o, x>> \in UNION {{<<o, x>> : x \in DOMAIN data.balances[o]} :
                            o \in DOMAIN data.balances} :
        ~(o = u /\ x = sym)}

\* C23: after update_balance(u, s, amount, unit) the store holds for (u, s)
\* the row {amount, unit} of this call, whatever row it held before; the
\* other rows of u and the rows of the other users are as they were, and
\* so are the alerts, the history, the snapshots and the subscribers.
C23_OneRowLastWins ==
    [][ LET pre == load_portfolio(file)
            post == load_portfolio(file')
            r == last'.r
            u == ToString(r.user_id)
        IN  last'.op = "update_balance" =>
                /\ post.balances[u][r.symbol] = [amount |-> r.amount, unit |-> r.unit]
                /\ OtherRows(post, u, r.symbol) = OtherRows(pre, u, r.symbol)
                /\ \A row \in OtherRows(pre, u, r.symbol) :
                      post.balances[row[1]][row[2]] = pre.balances[row[1]][row[2]]
                /\ post.alerts = pre.alerts
                /\ post.history = pre.history
                /\ post.snapshots = pre.snapshots
                /\ post.newsletter_subs = pre.newsletter_subs
      ]_vars

\* C23's case: user 1, who holds gold, has replaced the amount of their
\* share by another one, in a store with a timer in the history, a
\* snapshot, a subscriber and a balance of user 2.
C23_Witness ==
    /\ last.op = "update_balance"
    /\ last.r.symbol = "THYAO.IS"
    /\ last.before = [amount |-> Float(20, 1), unit |-> "lot"]
    /\ Doc.balances["1"]["THYAO.IS"] = [amount |-> Float(10, 1), unit |-> "lot"]
    /\ "ALTIN" \in DOMAIN Doc.balances["1"]
    /\ "2" \in DOMAIN Doc.balances
    /\ Doc.history # <<>>
    /\ Doc.snapshots # <<>>
    /\ Doc.newsletter_subs # <<>>

\* The sum of the values that f gives to the members of S.
RECURSIVE SumOver(_, _)
SumOver(f, S) ==
    IF S = {} THEN Zero
    ELSE LET x == CHOOSE y \in S : TRUE IN Plus(f[x], SumOver(f, S \ {x}))

\* C24: a balance whose market data cannot be resolved has a row without a
\* value and the report is still made; the totals are the sums of the
\* dollar and lira values of exactly the rows that were resolved; when the
\* USD/TRY lookup fails the rate is 1.0, so a lira amount and its dollar
\* amount are the same number.
C24_UnresolvedSkipped ==
    (last.op = "get_portfolio_status" /\ ~last.result.empty) =>
        LET rows == load_portfolio(file).balances[ToString(last.user_id)]
            res == last.result
            resolved == {sym \in DOMAIN rows : last.answer[query_symbol(sym)] # None}
        IN  /\ DOMAIN res.rows = DOMAIN rows
            /\ \A sym \in DOMAIN rows :
                  /\ res.rows[sym].resolved <=> sym \in resolved
                  /\ sym \notin resolved => DOMAIN res.rows[sym] = {"resolved"}
            /\ res.total_usd = SumOver([sym \in resolved |-> res.rows[sym].val_usd], resolved)
            /\ res.total_try = SumOver([sym \in resolved |-> res.rows[sym].val_try], resolved)
            /\ last.usd_data = None =>
                  /\ res.usd_try_rate = 1
                  /\ \A sym \in resolved : res.rows[sym].val_usd = res.rows[sym].val_try

\* C24's case: the gold price of user 1 is not resolved, their share is,
\* and the USD/TRY lookup has failed: the report counts the 10 lots at
\* 300 lira as 3000 in both totals.
C24_Witness ==
    /\ last.op = "get_portfolio_status"
    /\ last.user_id = 1
    /\ last.usd_data = None
    /\ ~last.result.empty
    /\ DOMAIN last.result.rows = {"ALTIN", "THYAO.IS"}
    /\ ~last.result.rows["ALTIN"].resolved
    /\ last.result.rows["THYAO.IS"].resolved
    /\ last.result.total_try = Float(3000, 1)
    /\ last.result.total_usd = Float(3000, 1)

\* C25: for a user whose only balance is ALTIN, 311.034768 gram, with
\* gold at 2000 USD per ounce and a USD/TRY rate of 30, the report values
\* the asset, at two decimals, at 20000.00 USD and 600000.00 TRY (the
\* numbers are in hundredths).
C25_GoldTenOunces ==
    (/\ last.op = "get_portfolio_status"
     /\ ~last.result.empty
     /\ load_portfolio(file).balances[ToString(last.user_id)]
            = ("ALTIN" :> [amount |-> Float(311034768, 1000000), unit |-> "gram"])
     /\ last.answer["GC=F"] = [price |-> 2000, currency |-> "USD"]
     /\ last.usd_data = [price |-> 30, currency |-> "TRY"])
    => /\ Fmt2(last.result.rows["ALTIN"].val_usd) = 2000000
       /\ Fmt2(last.result.rows["ALTIN"].val_try) = 60000000
       /\ Fmt2(last.result.total_usd) = 2000000
       /\ Fmt2(last.result.total_try) = 60000000

\* ---------------------------------------------------- the price cache
\* The lookups of a pass, one by one.  The oracle may answer each call of
\* get_market_data differently: stream[k] is what it would answer to the
\* k-th call of the loop.

\* A test of the cache that never finds the symbol.
never_cached(price_cache, symbol) == FALSE

\* symbol in price_cache (line 603).
cached(price_cache, symbol) == symbol \in DOMAIN price_cache

\* Lines 598-609 for the alerts from i on.  acc holds price_cache, the
\* calls of get_market_data made so far (symbol and answer) and, for each
\* price alert, the market_data it is evaluated against.
RECURSIVE lookup_loop(_, _, _, _)
lookup_loop(alerts, i, acc, stream) ==
    IF i > Len(alerts) THEN acc
    ELSE IF alerts[i].type # "price" THEN lookup_loop(alerts, i + 1, acc, stream)
    ELSE
      LET symbol == alerts[i].symbol
          hit == cached(acc.price_cache, symbol)
          market_data == stream[Len(acc.calls) + 1][symbol]
          price_cache == IF hit THEN acc.price_cache
                         ELSE (symbol :> market_data) @@ acc.price_cache
      IN  lookup_loop(alerts, i + 1,
                      [price_cache |-> price_cache,
                       calls |-> IF hit THEN acc.calls
                                 ELSE Append(acc.calls, [symbol |-> symbol,
                                                         market_data |-> market_data]),
                       used |-> Append(acc.used, [alert |-> i, symbol |-> symbol,
                                                  market_data |-> price_cache[symbol]])],
                      stream)

lookups(alerts, stream) ==
    lookup_loop(alerts, 1, [price_cache |-> <<>>, calls |-> <<>>, used |-> <<>>], stream)

\* The number of price alerts of a list: the most calls a pass can make.
RECURSIVE PriceAlerts(_)
PriceAlerts(alerts) ==
    IF alerts = <<>> THEN 0
    ELSE (IF Head(alerts).type = "price" THEN 1 ELSE 0) + PriceAlerts(Tail(alerts))

\* A pass whose lookups the oracle answers call by call.  The pass
\* evaluates each alert against the cache entry of its symbol; the lookups
\* recorded are those of the alerts the loop came to before it ended.
CheckAlertsByCall ==
    LET data == load_portfolio(file)
        asked == AlertSymbols(data.alerts)
    IN  \E stream \in [1..PriceAlerts(data.alerts) -> Oracles(asked)],
           usd_data \in RateData :
            \E all \in {lookups(data.alerts, stream)} :
                /\ Pass(data, [s \in Symbols |-> IF s \in DOMAIN all.price_cache
                                                 THEN all.price_cache[s] ELSE None],
                        usd_data)
                /\ seen' = LET done == lookups(SubSeq(data.alerts, 1, Len(last'.visited)),
                                               stream)
                           IN  <<done.calls, done.used>>
                /\ UNCHANGED <<held, front, races>>

CacheNext ==
    \/ AddAlert
    \/ AddTimeAlert
    \/ CheckAlertsByCall
    \/ Tick

SpecCache == Init /\ [][CacheNext]_vars

\* C27: in a pass get_market_data is called at most once for a symbol, and
\* exactly for the symbols of the price alerts the loop came to (no answer
\* of an earlier pass is used); every price alert is evaluated against the
\* answer to the one call for its symbol, a failed lookup included, so the
\* alerts on one symbol see the same data.
C27_OneLookupPerSymbol ==
    last.op = "check_alerts" =>
        LET made == seen[1]
            used == seen[2]
            came == {i \in 1..Len(last.visited) : last.pre[i].type = "price"}
        IN  /\ \A j, k \in 1..Len(made) : made[j].symbol = made[k].symbol => j = k
            /\ {made[k].symbol : k \in 1..Len(made)} = {last.pre[i].symbol : i \in came}
            /\ {used[k].alert : k \in 1..Len(used)} = came
            /\ \A u \in 1..Len(used) :
                  /\ used[u].symbol = last.pre[used[u].alert].symbol
                  /\ \E k \in 1..Len(made) :
                        /\ made[k].symbol = used[u].symbol
                        /\ made[k].market_data = used[u].market_data
            /\ \A u, v \in 1..Len(used) :
                  used[u].symbol = used[v].symbol => used[u].market_data = used[v].market_data

\* C27's case: a pass has come to two price alerts on THYAO and has made
\* one call for it, which failed.
C27_Witness ==
    /\ last.op = "check_alerts"
    /\ ~last.raised
    /\ Len(seen[2]) = 2
    /\ seen[2][1].symbol = "THYAO"
    /\ seen[2][2].symbol = "THYAO"
    /\ Len(seen[1]) = 1
    /\ seen[1][1].market_data = None

\* ------------------------------------------- one job per level, for life
\* Whether a list holds a value twice.
Duplicates(l) == \E j, k \in 1..Len(l) : j # k /\ l[j] = l[k]

\* The level of a stored alert (a timer has none: it is below its only job).
LevelOf(a) == IF a.type = "price" THEN a.current_level ELSE -1

\* The level alert a has reached by the jobs in l: the highest level a job
\* was returned for, 2 for a timer that got its job, -1 without a job.
Reached(a, l) ==
    IF a.type = "time" THEN (IF l = <<>> THEN -1 ELSE 2)
    ELSE IF \E k \in 1..Len(l) : l[k] = repeat_count_of(2) THEN 2
    ELSE IF \E k \in 1..Len(l) : l[k] = repeat_count_of(1) THEN 1
    ELSE IF l = <<>> THEN -1 ELSE 0

\* The list holds the alert created at c below the level it has reached.
Behind(alerts, l, c) == \E i \in At(alerts, c) : LevelOf(alerts[i]) < Reached(alerts[i], l)

\* C28 as stated: whatever the interleaving, no alert gets two jobs for one
\* level, and an alert that was archived (a timer that got its job, a price
\* alert that got its job of level 2) is not in the active list.
C28_OneJobPerLevel ==
    \A c \in 0..MaxTime :
        /\ ~Duplicates(log[c])
        /\ \A i \in At(Doc.alerts, c) : Reached(Doc.alerts[i], log[c]) < 2

\* C28, amended: a pass returns at most one job per alert, and a job for a
\* level the alert already got a job for only when the document the pass
\* loaded holds the alert below the level it has reached; the file comes to
\* hold an alert below the level it has reached only by the save of an
\* operation that had loaded the alert so, before the save of another
\* operation advanced, archived or removed it.
C28_OneJobPerLevelUntilWrittenBack ==
    [][ /\ (last'.op = "check_alerts" /\ last' # last) =>
              /\ ~Duplicates(last'.srcs)
              /\ \A k \in 1..Len(last'.srcs) :
                    LET c == last'.srcs[k]
                    IN  (\E j \in 1..Len(log[c]) :
                            log[c][j] = last'.triggered_alerts[k].repeat_count)
                        => Behind(last'.pre, log[c], c)
        /\ \A c \in 0..MaxTime :
              (/\ ~Behind(alerts_of(load_portfolio(file)), log[c], c)
               /\ Behind(load_portfolio(file').alerts, log'[c], c))
              => /\ lost'.saved
                 /\ Behind(lost'.loaded.alerts, log[c], c)
                 /\ \A i \in At(load_portfolio(file').alerts, c) :
                       /\ \A j \in At(lost'.loaded.alerts, c) :
                             LevelOf(lost'.loaded.alerts[j])
                                 <= LevelOf(load_portfolio(file').alerts[i])
                       /\ \A j \in At(lost'.before.alerts, c) :
                             LevelOf(lost'.before.alerts[j])
                                 > LevelOf(load_portfolio(file').alerts[i])
      ]_vars

\* C28's case: an operation's late save has put an alert back and the
\* pass that followed has returned, for the second time, a job of a level
\* the alert had got a job for.
C28_Witness ==
    /\ IsPass
    /\ ~last.raised
    /\ \E k \in 1..Len(last.srcs) :
          /\ Duplicates(log[last.srcs[k]])
          /\ Behind(last.pre, SubSeq(log[last.srcs[k]], 1, Len(log[last.srcs[k]]) - 1),
                    last.srcs[k])

\* ------------------------------------------- a load during another's save
\* Whether a document holds anything a user or a pass has stored.
HoldsData(doc) ==
    \/ doc.alerts # <<>>
    \/ doc.balances # <<>>
    \/ doc.history # <<>>
    \/ doc.snapshots # <<>>
    \/ doc.newsletter_subs # <<>>

\* C29: no operation saves the default document plus its own change over a
\* store that held data: an operation whose load ran while another thread
\* was writing the file saves over a file that holds nothing.
C29_NoLossByTornLoad ==
    (lost.saved /\ lost.torn) => ~HoldsData(lost.before)

\* ---------------------------------------------------------- no starvation
\* The job queue runs check_alerts_job every 5 seconds (bot.py, line 207):
\* passes never stop coming.  The passes that are sure to come are those
\* the oracle answers, for every symbol asked, with a price that meets the
\* base condition of every "above" alert: the highest price of the symbol.
TopPrice(symbol) == CHOOSE p \in PricesOf(symbol) : \A q \in PricesOf(symbol) : q <= p

AnsweringOracle(asked) ==
    [s \in Symbols |-> IF s \in asked
                       THEN [price |-> TopPrice(s), currency |-> CurrencyOf(s)]
                       ELSE None]

\* Such a pass; seen counts them modulo 2, so that a pass that changes
\* nothing else is still a step.
CheckAlertsAnswered ==
    \E usd_data \in RateData :
        /\ Pass(load_portfolio(file),
                AnsweringOracle(AlertSymbols(load_portfolio(file).alerts)), usd_data)
        /\ seen' = IF seen = <<1>> THEN <<0>> ELSE <<1>>
        /\ UNCHANGED <<held, front, races>>

LiveNext ==
    \/ AddAlert
    \/ AddTimeAlert
    \/ CheckAlertsAnswered
    \/ Tick

SpecLive == Init /\ [][LiveNext]_vars /\ WF_vars(CheckAlertsAnswered)

\* The alert created at c is pending and a pass the oracle answers owes it
\* a notification: a timer whose trigger time has passed, or a price alert
\* not yet notified whose base condition the answer meets.
Owed(c) ==
    \E i \in At(alerts_of(Doc), c) :
        LET a == Doc.alerts[i]
        IN  IF a.type = "time" THEN eval_time(a, now).should_remove
            ELSE /\ a.current_level = -1
                 /\ base_met(a.condition, TopPrice(a.symbol), a.target_price)

\* A job has been returned for the alert created at c, and its advancement
\* or its archival saved.
Notified(c) == log[c] # <<>>

\* C30: when passes keep coming and the oracle answers, every pending
\* timer whose time has come and every pending price alert whose base
\* condition holds is eventually notified, whatever else is stored.
C30_NoStarvation == \A c \in 0..MaxTime : Owed(c) ~> Notified(c)

\* ------------------------------------------- listing, then cancelling
\* get_active_alerts: the alerts of the user in stored order, which the
\* report numbers from 1; none when the report says there is no alert.
get_active_alerts(data, user_id) ==
    LET alerts == alerts_of(data)
        user_str == ToString(user_id)
    IN  SelectSeq(alerts, LAMBDA a : ToString(a.user_id) = user_str)

\* A user asks for the list of their alerts (/alarms, the list tool); seen
\* keeps what they were shown: per number, the alert (by created_at).
GetActiveAlerts ==
    \E user_id \in Users :
        LET user_alerts == get_active_alerts(load_portfolio(file), user_id)
        IN  /\ seen' = [user_id |-> user_id,
                        shown |-> [i \in 1..Len(user_alerts) |-> user_alerts[i].created_at]]
            /\ last' = [op |-> "get_active_alerts", user_id |-> user_id,
                        empty |-> user_alerts = <<>>]
            /\ UNCHANGED <<file, now, log, held, front, races>>

\* The user who was shown a list cancels one of its numbers.
CancelShown ==
    /\ seen # <<>>
    /\ \E alert_index \in 1..Len(seen.shown) :
        LET data == load_portfolio(file)
            r == delete_alert(data, seen.user_id, alert_index)
        IN  /\ file' = IF r.saved THEN save_portfolio(r.data) ELSE file
            /\ last' = [op |-> "delete_alert", user_id |-> seen.user_id,
                        alert_index |-> alert_index, saved |-> r.saved,
                        result |-> r.result,
                        removed |-> Ids(alerts_of(data)) \ Ids(alerts_of(r.data))]
            /\ UNCHANGED <<now, log, seen, held, front, races>>

ListNext ==
    \/ AddAlert
    \/ AddTimeAlert
    \/ GetActiveAlerts
    \/ CheckAlerts
    \/ CancelShown
    \/ Tick

SpecList == Init /\ [][ListNext]_vars

\* The last step was a cancel of a number of the list in seen.
CancelledShown(l) == l.op = "delete_alert" /\ "removed" \in DOMAIN l

\* C31 as stated: delete_alert(u, k) issued after get_active_alerts(u)
\* removes the alert the listing showed as number k whenever that alert
\* is still stored, and never removes another alert than that one, also
\* when passes have run between the listing and the cancel.
C31_RemovesTheAlertShown ==
    [][ CancelledShown(last') =>
            LET shown == seen.shown[last'.alert_index]
            IN  /\ last'.removed \subseteq {shown}
                /\ (shown \in Ids(alerts_of(load_portfolio(file)))
                        => last'.removed = {shown})
      ]_vars

\* C31, amended: delete_alert(u, k) issued after get_active_alerts(u)
\* removes the alert that is the k-th of u's alerts in the store at the
\* time of the cancel, and nothing when u has fewer than k alerts by then;
\* that alert is the one the listing showed as number k when the first k
\* alerts of u are still those the listing showed, that is when no pass
\* has archived (and no cancel removed) an alert shown at a number up to k.
C31_RemovesTheKthStored ==
    [][ CancelledShown(last') =>
            LET k == last'.alert_index
                user_alerts == get_active_alerts(load_portfolio(file), seen.user_id)
                stored == [i \in 1..Len(user_alerts) |-> user_alerts[i].created_at]
            IN  /\ last'.removed = IF k <= Len(stored) THEN {stored[k]} ELSE {}
                /\ last'.saved = (k <= Len(stored))
                /\ (k <= Len(stored) /\ SubSeq(stored, 1, k) = SubSeq(seen.shown, 1, k))
                        => last'.removed = {seen.shown[k]}
                /\ (\A i \in 1..k : seen.shown[i] \in Ids(user_alerts))
                        => last'.removed = {seen.shown[k]}
      ]_vars

\* C31's case: a user was shown two alerts, a pass then archived the one
\* shown as number 1, and the cancel of number 1 removed the alert that
\* was shown as number 2.
C31_Witness ==
    /\ CancelledShown(last)
    /\ Len(seen.shown) = 2
    /\ last.alert_index = 1
    /\ seen.shown[1] \in Ids(Doc.history)
    /\ last.removed = {seen.shown[2]}

\* -------------------------------------- the conditions the front end stores
\* Text as the characters it is made of, for the operations that look
\* inside it; Join gives the string back.
RECURSIVE Join(_)
Join(chars) == IF chars = <<>> THEN "" ELSE Head(chars) \o Join(Tail(chars))

\* str.lower(), letter by letter.
LowerCase ==
    [A |-> "a", B |-> "b", C |-> "c", D |-> "d", E |-> "e", F |-> "f", G |-> "g",
     H |-> "h", I |-> "i", J |-> "j", K |-> "k", L |-> "l", M |-> "m", N |-> "n",
     O |-> "o", P |-> "p", Q |-> "q", R |-> "r", S |-> "s", T |-> "t", U |-> "u",
     V |-> "v", W |-> "w", X |-> "x", Y |-> "y", Z |-> "z"]

lower(chars) ==
    [i \in 1..Len(chars) |-> IF chars[i] \in DOMAIN LowerCase THEN LowerCase[chars[i]]
                             ELSE chars[i]]

\* Python's  word in text  for strings: word occurs in text as a run of
\* consecutive characters.
contains(chars, word) ==
    \E i \in 1..(Len(chars) - Len(word) + 1) : SubSeq(chars, i, i + Len(word) - 1) = word

\* The words create_alert looks for (those of the source with their
\* diacritics written in plain letters).
AboveWords ==
    {<<"a", "b", "o", "v", "e">>, <<"y", "u", "k", "a", "r", "i">>,
     <<"u", "z", "e", "r", "i">>, <<"f", "a", "z", "l", "a">>}
BelowWords ==
    {<<"b", "e", "l", "o", "w">>, <<"a", "s", "a", "g", "i">>,
     <<"a", "l", "t", "i">>, <<"d", "u", "s", "u", "k">>}

\* create_alert's normalisation of the condition (lines 41-45): the lower
\* case text, replaced by 'above' or 'below' when it holds one of their
\* words; there is no else branch.
normalize(condition) ==
    LET cond == lower(condition)
    IN  IF \E w \in AboveWords : contains(cond, w) THEN "above"
        ELSE IF \E w \in BelowWords : contains(cond, w) THEN "below"
        ELSE Join(cond)

\* The condition texts the agent may pass to create_alert.
ConditionTexts ==
    {<<"a", "b", "o", "v", "e">>,
     <<"B", "e", "l", "o", "w">>,
     <<"y", "u", "k", "a", "r", "i">>,
     <<"n", "o", "t", " ", "a", "b", "o", "v", "e">>,
     <<"E", "q", "u", "a", "l">>,
     <<>>}

\* The agents: one per user, and one built without a user id.
Agents == {[user_id |-> u] : u \in Users} \cup {None}

\* The create_alert tool of a user's agent.
CreateAlert ==
    \E agent \in Agents, condition \in ConditionTexts, md \in StartData("THYAO") :
        /\ now < MaxTime
        /\ IF agent = None
           THEN /\ file' = file
                /\ last' = [op |-> "create_alert", called |-> FALSE,
                            result |-> "Hata: kullanici kimligi tanimlanamadi."]
           ELSE /\ file' = save_portfolio(add_alert(load_portfolio(file), "THYAO", 100,
                                                    normalize(condition), agent.user_id,
                                                    now, md))
                /\ last' = [op |-> "create_alert", called |-> TRUE,
                            condition |-> condition, cond |-> normalize(condition),
                            result |-> "Fiyat alarmi basariyla eklendi."]
        /\ now' = now + 1
        /\ UNCHANGED <<log, seen, held, front, races>>

\* The arguments a user may give to /alert: two or three words, the second
\* the target, the third the condition.
AlertArgs ==
    {<<"THYAO", target, condition>> :
        target \in {"100", "abc"}, condition \in {"above", "below", "Above", "equal"}}
    \cup {<<"THYAO", "100">>}

\* float() of the target typed after /alert: ValueError for text that is
\* not a number.
float_of(text) ==
    IF text = "100" THEN [ok |-> TRUE, v |-> 100] ELSE [ok |-> FALSE, error |-> "ValueError"]

\* The /alert command.
SetAlertCommand ==
    \E args \in AlertArgs, user_id \in Users :
        /\ now < MaxTime
        /\ IF Len(args) # 3
           THEN /\ file' = file
                /\ last' = [op |-> "set_alert_command", called |-> FALSE,
                            result |-> "Hatali format."]
           ELSE IF args[3] \notin {"above", "below"}
           THEN /\ file' = file
                /\ last' = [op |-> "set_alert_command", called |-> FALSE,
                            result |-> "Kosul 'above' veya 'below' olmalidir."]
           ELSE IF ~float_of(args[2]).ok
           THEN \* float(target_price) of add_alert raises, the command's except
                \* clause reports it
                /\ file' = file
                /\ last' = [op |-> "set_alert_command", called |-> TRUE,
                            result |-> "Hata olustu"]
           ELSE \E md \in StartData(args[1]) :
                /\ file' = save_portfolio(add_alert(load_portfolio(file), args[1],
                                                    float_of(args[2]).v, args[3],
                                                    user_id, now, md))
                /\ last' = [op |-> "set_alert_command", called |-> TRUE,
                            result |-> "Fiyat alarmi basariyla eklendi."]
        /\ now' = now + 1
        /\ UNCHANGED <<log, seen, held, front, races>>

SurfaceNext ==
    \/ SetAlertCommand
    \/ CreateAlert
    \/ CheckAlerts
    \/ Tick

SpecSurface == Init /\ [][SurfaceNext]_vars

\* The price alerts of a list.
PriceAlertsOf(list) == {list[i] : i \in {j \in 1..Len(list) : list[j].type = "price"}}

\* C32: every price alert stored through /alert or the create_alert tool,
\* pending or archived, has condition exactly 'above' or 'below'; an alert
\* with another condition is never written to the store.
C32_ConditionAboveOrBelow ==
    \A a \in PriceAlertsOf(alerts_of(Doc)) \cup PriceAlertsOf(Doc.history) :
        a.condition \in {"above", "below"}

\* ------------------------------------------------ a send that raises
\* The job the run is at, as a failed one: its alert (by created_at), its
\* repeat count, its place among the jobs of the pass.
FailedJob(d) ==
    [created_at |-> d.srcs[d.item], repeat_count |-> d.triggered[d.item].repeat_count,
     item |-> d.item, of |-> Len(d.triggered)]

\* A dispatcher whose try encloses the loop over the jobs: a send that
\* raises ends the run.
SendRaisesEndsRun ==
    /\ disp.pc = "run"
    /\ disp' = [disp EXCEPT !.clock = @ + SleepBefore(disp),
                            !.failed = @ \cup {disp.item},
                            !.pc = "done"]
    /\ seen' = Append(seen, FailedJob(disp))
    /\ UNCHANGED <<file, now, last, log, held, calls, races>>

\* A send raises (the except clause of line 158, inside the loop over the
\* jobs); seen keeps the job.
SendRaises ==
    /\ disp.pc = "run"
    /\ disp' = NextItem([disp EXCEPT !.clock = @ + SleepBefore(disp),
                                     !.failed = @ \cup {disp.item}])
    /\ seen' = Append(seen, FailedJob(disp))
    /\ UNCHANGED <<file, now, last, log, held, calls, races>>

FailNext ==
    \/ AddAlert
    \/ AddTimeAlert
    \/ Tick
    \/ RunJob
    \/ Send1
    \/ Send2
    \/ SendRaises

SpecFail == Init /\ [][FailNext]_vars

\* The jobs the run has gone through: all of them once it is done.
GoneThrough ==
    IF disp.pc = "idle" THEN {}
    ELSE {k \in 1..Len(disp.triggered) : k < disp.item}

\* C33: when a send raises for a job, the run still dispatches every later
\* job of the pass (a run that is done has sent for, or failed at, each of
\* its jobs, and it has gone through all of them), and no later pass
\* returns a job of the same level for the failed job's alert: the pass
\* had saved the level or the archival before the first send.
C33_FailureIsContained ==
    /\ \A k \in GoneThrough : k \in disp.failed \/ SentFor(k) # {}
    /\ disp.pc = "done" => GoneThrough = 1..Len(disp.triggered)
    /\ \A n \in 1..Len(seen) :
           Cardinality({j \in 1..Len(log[seen[n].created_at]) :
                           log[seen[n].created_at][j] = seen[n].repeat_count}) = 1

\* C33's case: the first of two jobs of a pass failed, the run sent for the
\* second one, and a later pass has visited the failed job's alert, which
\* is still pending, and returned no job.
C33_Witness ==
    /\ Len(seen) = 1
    /\ seen[1].item = 1
    /\ seen[1].of = 2
    /\ last.op = "check_alerts"
    /\ ~last.raised
    /\ seen[1].created_at \in Ids(Doc.alerts)
    /\ last.triggered_alerts = <<>>
    /\ disp.pc = "done"
    /\ disp.triggered = <<>>

\* ------------------------------------------------- the frame of a pass
\* Passes over a store that also holds balances, subscribers and
\* snapshots; time passes with the operations that stamp what they store.
FrameBalances == {r \in StatusBalances : r.user_id = 2}

FrameNext ==
    \/ AddAlert
    \/ AddTimeAlert
    \/ CheckAlerts
    \/ UpdateBalance(FrameBalances)
    \/ Subscribe
    \/ NewsletterJob(TRUE, MaxTime + 1)

SpecFrame == Init /\ [][FrameNext]_vars

\* The alerts of a list by created_at, in the order of the list.
IdSeq(list) == [i \in 1..Len(list) |-> list[i].created_at]

\* The elements of a sequence.
Range(seq) == {seq[i] : i \in 1..Len(seq)}

\* The created_at of the alerts of a list that are among ids, in the order
\* of the list.
InOrderOf(list, ids) == SelectSeq(IdSeq(list), LAMBDA c : c \in ids)

\* C34: a pass leaves the balances, the snapshots and the subscribers as
\* they were, leaves every alert it returns no job for identical and
\* pending, keeps the pending alerts in their relative order, appends the
\* alerts it archives to the history in collection order (the earlier
\* entries kept), and returns its jobs in collection order, each for the
\* user of its alert.
C34_FrameOfAPass ==
    [][ last'.op = "check_alerts" =>
            LET pre == load_portfolio(file)
                post == load_portfolio(file')
                new == SubSeq(post.history, Len(pre.history) + 1, Len(post.history))
            IN  /\ post.balances = pre.balances
                /\ post.snapshots = pre.snapshots
                /\ post.newsletter_subs = pre.newsletter_subs
                /\ \A i \in 1..Len(pre.alerts) :
                      pre.alerts[i].created_at \notin Range(last'.srcs)
                          => pre.alerts[i] \in Range(post.alerts)
                /\ Range(IdSeq(post.alerts)) \cup Range(IdSeq(new))
                       = Range(IdSeq(pre.alerts))
                /\ IdSeq(post.alerts)
                       = InOrderOf(pre.alerts, Range(IdSeq(post.alerts)))
                /\ Len(post.history) >= Len(pre.history)
                /\ SubSeq(post.history, 1, Len(pre.history)) = pre.history
                /\ IdSeq(new) = InOrderOf(pre.alerts, Range(IdSeq(new)))
                /\ Len(last'.triggered_alerts) = Len(last'.srcs)
                /\ last'.srcs = InOrderOf(pre.alerts, Range(last'.srcs))
                /\ \A j \in 1..Len(last'.srcs) :
                      \E i \in At(pre.alerts, last'.srcs[j]) :
                          last'.triggered_alerts[j].user_id = pre.alerts[i].user_id
      ]_vars

\* C34's case: the store holds a balance, a subscriber and a snapshot; of
\* two pending alerts a pass has returned a job for each, in their order,
\* archived the first and kept the second, advanced, pending.
C34_Witness ==
    /\ last.op = "check_alerts"
    /\ ~last.raised
    /\ Len(last.pre) = 2
    /\ last.srcs = IdSeq(last.pre)
    /\ IdSeq(Doc.history) = <<last.pre[1].created_at>>
    /\ IdSeq(Doc.alerts) = <<last.pre[2].created_at>>
    /\ Doc.balances # <<>>
    /\ Doc.newsletter_subs # <<>>
    /\ Doc.snapshots # <<>>

====
